---- MODULE Spec2Model ----
(***************************************************************************)
(* A model of the reconciliation agent's core: the FX context classifier   *)
(* (fx_detector.py), the markup analyzer (markup_analyzer.py) and the      *)
(* Stripe/RMS matcher (stripe_integrity_checker.py).                       *)
(*                                                                         *)
(* Representation.                                                         *)
(*  - Text (narrations, currency and country codes) is a sequence of       *)
(*    one-character strings, so that upper(), lower(), substring search    *)
(*    and the regular expressions act on characters as the code does.      *)
(*  - Optional[str] is a record [k, s]: k = "none" for Python None,        *)
(*    k = "str" for a string s.                                            *)
(*  - Optional[float] is a record [k, v]: k = "none" for None, k = "nan"   *)
(*    for a float NaN, k = "num" for the number v / 100 (money, rates and  *)
(*    percentages are kept in hundredths, the precision round(x, 2)        *)
(*    produces).  Floating point is modelled by exact rational arithmetic. *)
(*  - Confidence scores are kept in hundredths (100 is 1.0).               *)
(*  - A pandas DataFrame is a record [cols, rows]: the set of its column   *)
(*    names and the sequence of its rows, each row a function from the     *)
(*    column names to cells.  A cell is a record [k, s, n]: k = "str" for  *)
(*    the string s, k = "num" for the number n (whole rupees), k = "ts"    *)
(*    for the instant n (hours, UTC), k = "naive" for a wall-clock time    *)
(*    without zone, k = "date" for the calendar day n, and k = "nan" for   *)
(*    a missing value (None, NaN, NaT).  A raised exception is an outcome  *)
(*    of the call, recorded with the line that raises it.                  *)
(***************************************************************************)
EXTENDS Integers, Sequences, FiniteSets, TLC

VARIABLES cfg, op, txn, ctx, prev_ctx, ncalls, margs, mres, inputs, run,
          given, m_primary_rows, prev_run, nruns,
          HOLIDAYS, cc_df, today, annotated, prev_annotated,
          reminder_log, handed, procs, nstarted,
          frame_in, frame_kept, frame_out, orch

vars == <<cfg, op, txn, ctx, prev_ctx, ncalls, margs, mres, inputs, run,
          given, m_primary_rows, prev_run, nruns,
          HOLIDAYS, cc_df, today, annotated, prev_annotated,
          reminder_log, handed, procs, nstarted,
          frame_in, frame_kept, frame_out, orch>>

\* The state of the FX and Stripe calls, apart from op
calls_vars == <<cfg, txn, ctx, prev_ctx, ncalls, margs, mres, inputs, run,
                given, m_primary_rows, prev_run, nruns>>

\* The state of the credit-card monitor
cc_vars == <<HOLIDAYS, cc_df, today, annotated, prev_annotated>>

\* The reminder log, the notifier and the runs of run_cc_monitor
mon_vars == <<reminder_log, handed, procs, nstarted>>

\* The frames of a call of annotate_fx or batch_analyze_markup
frame_vars == <<frame_in, frame_kept, frame_out>>

\* ------------------------------------------------------------------ values

NoneStr == [k |-> "none", s |-> <<>>]
Str(s) == [k |-> "str", s |-> s]
NoneNum == [k |-> "none", v |-> 0]
NaN == [k |-> "nan", v |-> 0]
Num(x) == [k |-> "num", v |-> x]

\* Python truthiness of an Optional[str]: None and "" are falsy.
TruthyStr(o) == o.k = "str" /\ o.s # <<>>

\* Python truthiness of an Optional[float]: None and 0 are falsy, NaN is truthy.
TruthyNum(o) == o.k = "nan" \/ (o.k = "num" /\ o.v # 0)

Abs(x) == IF x < 0 THEN -x ELSE x

Min(a, b) == IF a <= b THEN a ELSE b

\* ------------------------------------------------------------------- text

UpperLetters == <<"A","B","C","D","E","F","G","H","I","J","K","L","M",
                  "N","O","P","Q","R","S","T","U","V","W","X","Y","Z">>

LowerLetters == <<"a","b","c","d","e","f","g","h","i","j","k","l","m",
                  "n","o","p","q","r","s","t","u","v","w","x","y","z">>

Digits == {"0","1","2","3","4","5","6","7","8","9"}

IndexIn(c, letters) == CHOOSE i \in 1..Len(letters) : letters[i] = c

IsUpperCh(c) == \E i \in 1..Len(UpperLetters) : UpperLetters[i] = c

IsLowerCh(c) == \E i \in 1..Len(LowerLetters) : LowerLetters[i] = c

LowerCh(c) == IF IsUpperCh(c) THEN LowerLetters[IndexIn(c, UpperLetters)] ELSE c

UpperCh(c) == IF IsLowerCh(c) THEN UpperLetters[IndexIn(c, LowerLetters)] ELSE c

\* str.lower() and str.upper()
Lower(s) == [i \in 1..Len(s) |-> LowerCh(s[i])]

Upper(s) == [i \in 1..Len(s) |-> UpperCh(s[i])]

\* regex \s and \w on the characters the model uses
IsSpace(c) == c \in {" ", "\t"}

IsWord(c) == IsUpperCh(c) \/ IsLowerCh(c) \/ c \in Digits \/ c = "_"

\* p occurs in t at position i (1-based)
OccursAt(p, t, i) == /\ i + Len(p) - 1 <= Len(t)
                     /\ \A j \in 1..Len(p) : t[i + j - 1] = p[j]

\* Python's `p in t`
Contains(p, t) == \E i \in 1..(Len(t) + 1) : OccursAt(p, t, i)

\* ------------------------------------------------------------ DCC regex

\* Regular expression elements: a literal, one of several literals
\* (a non-capturing group, possibly optional), a whitespace run of at
\* least min characters, a word boundary.
Lit(s) == [t |-> "alt", alts |-> {s}, min |-> 0]
Alt(ss) == [t |-> "alt", alts |-> ss, min |-> 0]
Ws(min) == [t |-> "ws", alts |-> {}, min |-> min]
Wb == [t |-> "wb", alts |-> {}, min |-> 0]

\* \b at position i of t: exactly one of the neighbours is a word character
AtWordBoundary(t, i) ==
    LET before == i > 1 /\ i - 1 <= Len(t) /\ IsWord(t[i - 1])
        after == i <= Len(t) /\ IsWord(t[i])
    IN before # after

RECURSIVE MatchFrom(_, _, _, _)
\* elements k.. of pattern pat match the lower-cased text t from position i
MatchFrom(pat, k, t, i) ==
    IF k > Len(pat) THEN TRUE
    ELSE IF pat[k].t = "alt"
         THEN \E a \in pat[k].alts :
                  /\ OccursAt(Lower(a), t, i)
                  /\ MatchFrom(pat, k + 1, t, i + Len(a))
    ELSE IF pat[k].t = "ws"
         THEN \E n \in pat[k].min..(Len(t) - i + 1) :
                  /\ \A j \in i..(i + n - 1) : IsSpace(t[j])
                  /\ MatchFrom(pat, k + 1, t, i + n)
    ELSE AtWordBoundary(t, i) /\ MatchFrom(pat, k + 1, t, i)

\* re.search on the lower-cased text
Search(pat, lt) == \E i \in 1..(Len(lt) + 1) : MatchFrom(pat, 1, lt, i)

DCC_PATTERNS == <<
    <<Wb, Lit(<<"D","C","C">>), Wb>>,
    <<Lit(<<"D","Y","N">>), Ws(0), Lit(<<"C">>),
      Alt({<<"U","R","R">>, <<"U","R","R","E","N","C","Y">>})>>,
    <<Lit(<<"I","N","R">>), Ws(0), Lit(<<"@">>), Ws(0), Lit(<<"P","O","S">>)>>,
    <<Lit(<<"C","U","R","R","E","N","C","Y">>), Ws(1),
      Lit(<<"C","O","N","V","E","R","S","I","O","N">>)>>,
    <<Lit(<<"C","O","N","V">>), Alt({<<>>, <<"E","R","S","I","O","N">>}), Ws(1),
      Lit(<<"R","A","T","E">>)>>,
    <<Lit(<<"M","E","R","C","H","A","N","T">>), Ws(1),
      Lit(<<"C","O","N","V","E","R","S","I","O","N">>)>> >>

\* DCC_REGEX.search(narration): the alternation of the patterns, with
\* re.IGNORECASE (patterns and text are compared lower-cased)
DCC_REGEX(t) ==
    LET lt == Lower(t)
    IN \E p \in 1..Len(DCC_PATTERNS) : Search(DCC_PATTERNS[p], lt)

\* ------------------------------------------------------------ fx_detector

INR == <<"I","N","R">>
USD == <<"U","S","D">>
EUR == <<"E","U","R">>
GBP == <<"G","B","P">>
AED == <<"A","E","D">>
AUD == <<"A","U","D">>
SGD == <<"S","G","D">>
CAD == <<"C","A","D">>
JPY == <<"J","P","Y">>

\* CCY_HINTS in the dict's insertion order; the currency signs other than
\* "$" are single characters named EURO, POUND and YEN.
CCY_HINTS == <<
    <<USD, USD>>, <<<<" ","U","S","$">>, USD>>, <<<<"$">>, USD>>,
    <<EUR, EUR>>, <<<<"EURO">>, EUR>>,
    <<GBP, GBP>>, <<<<"POUND">>, GBP>>,
    <<AED, AED>>, <<AUD, AUD>>, <<SGD, SGD>>, <<CAD, CAD>>,
    <<JPY, JPY>>, <<<<"YEN">>, JPY>> >>

COUNTRY_TO_CCY == {
    <<<<"U","S">>, USD>>, <<<<"G","B">>, GBP>>, <<<<"A","E">>, AED>>,
    <<<<"A","U">>, AUD>>, <<<<"S","G">>, SGD>>, <<<<"C","A">>, CAD>>,
    <<<<"J","P">>, JPY>>, <<<<"D","E">>, EUR>>, <<<<"F","R">>, EUR>>,
    <<<<"N","L">>, EUR>> }

\* _find_currency_in_text: the first hint, in dict order, that occurs in the
\* text ignoring case
_find_currency_in_text(text) ==
    LET hits == {h \in 1..Len(CCY_HINTS) : Contains(Lower(CCY_HINTS[h][1]), Lower(text))}
    IN IF text = <<>> \/ hits = {} THEN NoneStr
       ELSE Str(CCY_HINTS[CHOOSE h \in hits : \A g \in hits : h <= g][2])

\* _infer_from_country: exact lookup of the upper-cased code
_infer_from_country(iso_country) ==
    IF ~TruthyStr(iso_country) THEN NoneStr
    ELSE LET hit == {e \in COUNTRY_TO_CCY : e[1] = Upper(iso_country.s)}
         IN IF hit = {} THEN NoneStr ELSE Str((CHOOSE e \in hit : TRUE)[2])

\* The two error thresholds of fx_confidence, in hundredths of a rupee.
CONF_ERR_TIGHT == 5000

CONF_ERR_LOOSE == 10000

\* fx_confidence, in hundredths
fx_confidence(has_receipt, has_country_hint, abs_error_inr) ==
    LET s1 == IF has_receipt THEN 50 ELSE 0
        s2 == IF has_country_hint THEN 30 ELSE 0
        s3 == IF abs_error_inr.k = "num"
              THEN IF abs_error_inr.v <= CONF_ERR_TIGHT THEN 20
                   ELSE IF abs_error_inr.v <= CONF_ERR_LOOSE THEN 10 ELSE 0
              ELSE 0
    IN Min(100, s1 + s2 + s3)

\* abs(charged_inr - expected_inr) when both are given
AbsErr(expected_inr, charged_inr) ==
    IF expected_inr.k = "none" \/ charged_inr.k = "none" THEN NoneNum
    ELSE IF expected_inr.k = "nan" \/ charged_inr.k = "nan" THEN NaN
    ELSE Num(Abs(charged_inr.v - expected_inr.v))

FXContext(is_foreign, is_dcc, currency, fx_source, confidence, notes) ==
    [is_foreign |-> is_foreign, is_dcc |-> is_dcc, currency |-> currency,
     fx_source |-> fx_source, confidence |-> confidence, notes |-> notes]

\* `narration or ""`
OrEmpty(o) == IF TruthyStr(o) THEN o.s ELSE <<>>

\* Mutant of DccReturn: a DCC transaction is reported as foreign.
DccReturnForeign ==
    FXContext(TRUE, TRUE, INR, "dcc", 100,
              "DCC detected in narration; markup analysis bypassed.")

\* The return statements of detect_fx_context, in the order of the code.
\* fx_source None is the string "None".
DccReturn ==
    FXContext(FALSE, TRUE, INR, "dcc", 100,
              "DCC detected in narration; markup analysis bypassed.")

StatementReturn(stated_currency) ==
    FXContext(TRUE, FALSE, Upper(stated_currency.s), "statement", 90,
              "Foreign currency explicitly present in statement.")

ReceiptReturn(receipt_currency, merchant_country_iso2, expected_inr, charged_inr) ==
    FXContext(TRUE, FALSE, Upper(receipt_currency.s), "receipt",
              fx_confidence(TRUE, TruthyStr(merchant_country_iso2),
                            AbsErr(expected_inr, charged_inr)),
              "Currency taken from attached receipt.")

NarrationReturn(hinted_ccy, merchant_country_iso2) ==
    FXContext(TRUE, FALSE, hinted_ccy.s, "inferred",
              fx_confidence(FALSE, TruthyStr(merchant_country_iso2), NoneNum),
              "Currency inferred from narration hints.")

\* Mutant of CountryReturn: the country rule reuses the receipt tag.
CountryReturnReceiptTag(inferred_ccy) ==
    FXContext(TRUE, FALSE, inferred_ccy.s, "receipt",
              fx_confidence(FALSE, TRUE, NoneNum),
              "Currency inferred from merchant country.")

CountryReturn(inferred_ccy) ==
    FXContext(TRUE, FALSE, inferred_ccy.s, "inferred",
              fx_confidence(FALSE, TRUE, NoneNum),
              "Currency inferred from merchant country.")

\* Mutant of DefaultReturn: the domestic default carries the "inferred" tag.
DefaultReturnTagged(narration) ==
    FXContext(FALSE, FALSE, INR, "inferred",
              IF TruthyStr(narration) /\ Contains(INR, Upper(narration.s))
              THEN 80 ELSE 50,
              "No reliable foreign markers; assumed INR.")

DefaultReturn(narration) ==
    FXContext(FALSE, FALSE, INR, "None",
              IF TruthyStr(narration) /\ Contains(INR, Upper(narration.s))
              THEN 80 ELSE 50,
              "No reliable foreign markers; assumed INR.")

\* Mutant of detect_fx_context: the receipt currency is looked at before the
\* stated currency.
detect_fx_context_receipt_first(narration, merchant_country_iso2, stated_currency, receipt_currency, expected_inr, charged_inr) ==
    LET is_dcc == TruthyStr(narration) /\ DCC_REGEX(narration.s)
        hinted_ccy == _find_currency_in_text(OrEmpty(narration))
        inferred_ccy == _infer_from_country(merchant_country_iso2)
    IN IF is_dcc THEN DccReturn
       ELSE IF TruthyStr(receipt_currency) /\ Upper(receipt_currency.s) # INR
       THEN ReceiptReturn(receipt_currency, merchant_country_iso2,
                          expected_inr, charged_inr)
       ELSE IF TruthyStr(stated_currency) /\ Upper(stated_currency.s) # INR
       THEN StatementReturn(stated_currency)
       ELSE IF TruthyStr(hinted_ccy) /\ hinted_ccy.s # INR
       THEN NarrationReturn(hinted_ccy, merchant_country_iso2)
       ELSE IF TruthyStr(inferred_ccy) /\ inferred_ccy.s # INR
       THEN CountryReturn(inferred_ccy)
       ELSE DefaultReturn(narration)

\* detect_fx_context.  txn_ts is only normalised and never read, so it is
\* not an input here.
detect_fx_context(narration, merchant_country_iso2, stated_currency, receipt_currency, expected_inr, charged_inr) ==
    LET is_dcc == TruthyStr(narration) /\ DCC_REGEX(narration.s)
        hinted_ccy == _find_currency_in_text(OrEmpty(narration))
        inferred_ccy == _infer_from_country(merchant_country_iso2)
    IN IF is_dcc THEN DccReturn
       ELSE IF TruthyStr(stated_currency) /\ Upper(stated_currency.s) # INR
       THEN StatementReturn(stated_currency)
       ELSE IF TruthyStr(receipt_currency) /\ Upper(receipt_currency.s) # INR
       THEN ReceiptReturn(receipt_currency, merchant_country_iso2,
                          expected_inr, charged_inr)
       ELSE IF TruthyStr(hinted_ccy) /\ hinted_ccy.s # INR
       THEN NarrationReturn(hinted_ccy, merchant_country_iso2)
       ELSE IF TruthyStr(inferred_ccy) /\ inferred_ccy.s # INR
       THEN CountryReturn(inferred_ccy)
       ELSE DefaultReturn(narration)

\* ------------------------------------------------------------ configuration

\* production_config THRESHOLDS defaults, in hundredths
DEFAULT_FX_MARKUP_TOL == 250

DEFAULT_FX_INR_TOL == 10000

\* The configured values the model runs under: the defaults and one other
\* value of each (FX_MARKUP_TOL_PCT = 4.0, FX_INR_TOL = 200).
MarkupTols == {DEFAULT_FX_MARKUP_TOL, 400}

InrTols == {DEFAULT_FX_INR_TOL, 20000}

Configs == [fx_markup_tolerance_pct : MarkupTols, fx_inr_tolerance : InrTols]

\* -------------------------------------------------------- markup_analyzer

\* markup_analyzer's module globals, read from SETTINGS["thresholds"]
FX_MARKUP_TOL == cfg.fx_markup_tolerance_pct

FX_INR_TOL == cfg.fx_inr_tolerance

\* The quotient q and remainder r of n / d, d > 0, to the nearest integer with
\* ties to the even one (Python's round)
RoundQR(q, r, d) ==
    IF 2 * r < d THEN q
    ELSE IF 2 * r > d THEN q + 1
    ELSE IF q % 2 = 0 THEN q ELSE q + 1

\* n / d rounded to the nearest integer
RoundDiv(n, d) ==
    LET nn == IF d < 0 THEN -n ELSE n
        dd == Abs(d)
    IN RoundQR(nn \div dd, nn % dd, dd)

RECURSIVE Scaled(_, _, _)
\* <<floor(n * 10^k / d), its remainder>> for d > 0, one decimal digit at a
\* time so that no intermediate product leaves the checker's integers
Scaled(n, d, k) ==
    IF k = 0 THEN <<n \div d, n % d>>
    ELSE LET p == Scaled(n, d, k - 1)
         IN <<p[1] * 10 + (p[2] * 10) \div d, (p[2] * 10) % d>>

\* n * 10^k / d rounded to the nearest integer
RoundScaledDiv(n, k, d) ==
    LET nn == IF d < 0 THEN -n ELSE n
        dd == Abs(d)
        p == Scaled(nn, dd, k)
    IN RoundQR(p[1], p[2], dd)

\* fx_context: None, the empty dict, or a dict with the key is_dcc
FxNone == [k |-> "none", is_dcc |-> FALSE]
FxEmpty == [k |-> "empty", is_dcc |-> FALSE]
FxDict(is_dcc) == [k |-> "dict", is_dcc |-> is_dcc]

\* Mutant of MarkupResult: the positional arguments markup_pct and is_flagged
\* are not stored (the dataclass defaults them).
MarkupResultDefaulted(is_flagged, markup_pct, inr_diff, status, reason) ==
    [is_flagged |-> FALSE, markup_pct |-> [k |-> "none", v |-> 0], inr_diff |-> inr_diff,
     status |-> status, reason |-> reason]

MarkupResult(is_flagged, markup_pct, inr_diff, status, reason) ==
    [is_flagged |-> is_flagged, markup_pct |-> markup_pct, inr_diff |-> inr_diff,
     status |-> status, reason |-> reason]

\* round(charged_inr - foreign_amount * interbank_rate, 2), in hundredths
InrDiff(foreign_amount, charged_inr, interbank_rate) ==
    IF "nan" \in {foreign_amount.k, charged_inr.k, interbank_rate.k} THEN NaN
    ELSE Num(RoundDiv(100 * charged_inr.v - foreign_amount.v * interbank_rate.v, 100))

\* round(((charged_inr / foreign_amount - interbank_rate) / interbank_rate) * 100, 2),
\* in hundredths of a percent
MarkupPct(foreign_amount, charged_inr, interbank_rate) ==
    IF "nan" \in {foreign_amount.k, charged_inr.k, interbank_rate.k} THEN NaN
    ELSE Num(RoundScaledDiv(100 * charged_inr.v - foreign_amount.v * interbank_rate.v,
                            4, foreign_amount.v * interbank_rate.v))

\* Mutant of Exceeds: the comparison is not strict.
ExceedsOrEquals(x, tol) == x.k = "num" /\ x.v >= tol

\* x > tol on floats: False when x is NaN
Exceeds(x, tol) == x.k = "num" /\ x.v > tol

AbsNum(x) == IF x.k = "num" THEN Num(Abs(x.v)) ELSE x

\* The parts of a FLAGGED reason, joined by "; " in this order.
MarkupReason(markup_pct) == [cites |-> "Markup", value |-> markup_pct, limit |-> FX_MARKUP_TOL]

InrReason(inr_diff) == [cites |-> "INR difference", value |-> AbsNum(inr_diff), limit |-> FX_INR_TOL]

\* Mutant of FlagReasons: only the first breached condition is cited.
FlagReasonsFirstOnly(is_markup_exceeded, is_inr_diff_exceeded, markup_pct, inr_diff) ==
    IF is_markup_exceeded THEN <<MarkupReason(markup_pct)>> ELSE <<InrReason(inr_diff)>>

\* The reasons list of a FLAGGED result
FlagReasons(is_markup_exceeded, is_inr_diff_exceeded, markup_pct, inr_diff) ==
    (IF is_markup_exceeded THEN <<MarkupReason(markup_pct)>> ELSE <<>>)
    \o (IF is_inr_diff_exceeded THEN <<InrReason(inr_diff)>> ELSE <<>>)

analyze_markup(foreign_amount, charged_inr, interbank_rate, fx_context) ==
    IF ~TruthyNum(foreign_amount) \/ ~TruthyNum(charged_inr) \/ ~TruthyNum(interbank_rate)
    THEN MarkupResult(FALSE, NoneNum, NoneNum, "SKIPPED",
                      <<"Missing core values for analysis">>)
    ELSE IF fx_context.k = "dict" /\ fx_context.is_dcc
    THEN MarkupResult(FALSE, NoneNum, NoneNum, "BYPASS",
                      <<"DCC transaction detected, markup check not applicable">>)
    ELSE LET inr_diff == InrDiff(foreign_amount, charged_inr, interbank_rate)
             markup_pct == MarkupPct(foreign_amount, charged_inr, interbank_rate)
             is_markup_exceeded == Exceeds(markup_pct, FX_MARKUP_TOL)
             is_inr_diff_exceeded == Exceeds(AbsNum(inr_diff), FX_INR_TOL)
         IN IF is_markup_exceeded \/ is_inr_diff_exceeded
            THEN MarkupResult(TRUE, markup_pct, inr_diff, "FLAGGED",
                     FlagReasons(is_markup_exceeded, is_inr_diff_exceeded,
                                 markup_pct, inr_diff))
            ELSE MarkupResult(FALSE, markup_pct, inr_diff, "OK", <<"Within thresholds">>)

\* ------------------------------------------------------------------ inputs

\* Narrations: every concatenation of at most MaxTokens tokens of Vocab, a
\* few statement lines, the empty string and None.
MaxTokens == 2

Vocab == { <<"D","C","C">>, <<" ">>, <<"d","y","n">>, <<"C","U","R","R">>, USD }

RECURSIVE Flatten(_)
Flatten(ts) == IF ts = <<>> THEN <<>> ELSE Head(ts) \o Flatten(Tail(ts))

TokenSeqs == UNION {[1..n -> Vocab] : n \in 0..MaxTokens}

SampleNarrations == {
    <<"A","M","Z","N"," ","U","S"," ","*"," ","D","Y","N"," ","C","U","R","R">>,
    <<"I","N","R"," ","@"," ","P","O","S">>,
    <<"C","u","r","r","e","n","c","y"," "," ","C","o","n","v","e","r","s","i","o","n">>,
    <<"C","O","N","V"," ","R","A","T","E">>,
    <<"C","O","N","V","E","R","S","I","O","N","\t","R","A","T","E">>,
    <<"M","E","R","C","H","A","N","T"," ","C","O","N","V","E","R","S","I","O","N">>,
    <<"C","O","N","V","R","A","T","E">>,
    <<"A","U","D","I","O"," ","S","H","O","P">>,
    <<"H","O","T","E","L"," ","U","S","$","2","0">>,
    <<"C","A","F","E"," ","POUND","5">>,
    <<"a","u","d"," ","$","5">>,
    <<"e","u","r"," ","9"," ","U","S","D">>,
    <<"U","P","I"," ","i","n","r"," ","5","0","0">>,
    <<"K","I","R","A","N","A">> }

Narrations == {Str(Flatten(ts)) : ts \in TokenSeqs}
              \cup {Str(n) : n \in SampleNarrations} \cup {NoneStr}

Countries == {NoneStr, Str(<<"j","p">>), Str(<<"I","N">>)}

StatedCcys == {NoneStr, Str(<<"i","n","r">>), Str(<<"e","u","r">>)}

ReceiptCcys == {NoneStr, Str(INR), Str(<<"g","b","p">>)}

\* (expected_inr, charged_inr): absent, or an error of 0, 50.00, 50.01,
\* 80.00, 100.00, 100.01 and 150.00 rupees
ErrPairs == { <<NoneNum, NoneNum>>, <<Num(820000), NoneNum>> }
            \cup { <<Num(820000), Num(820000 + e)>> :
                       e \in {0, 5000, 5001, 8000, 10000, 10001, 15000} }

TxnInputs == [narration : Narrations, merchant_country_iso2 : Countries,
              stated_currency : StatedCcys, receipt_currency : ReceiptCcys,
              amounts : ErrPairs]

\* ----------------------------------------------------------- pandas frames

SCell(s) == [k |-> "str", s |-> s, n |-> 0]
NCell(n) == [k |-> "num", s |-> "", n |-> n]
TsCell(n) == [k |-> "ts", s |-> "", n |-> n]
NaiveCell(n) == [k |-> "naive", s |-> "", n |-> n]
DateCell(n) == [k |-> "date", s |-> "", n |-> n]
BoolCell(b) == [k |-> "bool", s |-> "", n |-> IF b THEN 1 ELSE 0]
\* None, NaN and NaT: pandas treats the three as missing
NaCell == [k |-> "nan", s |-> "", n |-> 0]

notna(x) == x.k # "nan"

DataFrame(cols, rows) == [cols |-> cols, rows |-> rows]

\* The rows of a frame, as a set
RowSet(df) == {df.rows[i] : i \in 1..Len(df.rows)}

\* df[mask]: the rows in keep, in the frame's order
Filter(df, keep) == DataFrame(df.cols, SelectSeq(df.rows, LAMBDA r : r \in keep))

\* df[col] = val: adds the column or overwrites it; val maps a row to its cell
SetColumn(df, col, val) ==
    LET cols == df.cols \cup {col}
    IN DataFrame(cols, [i \in 1..Len(df.rows) |->
                          [c \in cols |-> IF c = col THEN val[df.rows[i]]
                                                     ELSE df.rows[i][c]]])

\* df.rename(columns={old: new}); a frame without the old column is unchanged
Rename(df, old, new) ==
    IF old \notin df.cols THEN df
    ELSE LET cols == (df.cols \ {old}) \cup {new}
         IN DataFrame(cols, [i \in 1..Len(df.rows) |->
                               [c \in cols |-> IF c = new THEN df.rows[i][old]
                                                          ELSE df.rows[i][c]]])

\* The columns of left.merge(right, on=key, suffixes=...): a column name the
\* two frames share, other than the key, takes the side's suffix.
MergedName(c, left, right, key, suffix) ==
    IF c \in ((left.cols \cap right.cols) \ {key}) THEN c \o suffix ELSE c

MergedCols(left, right, key, suffixes) ==
    {MergedName(c, left, right, key, suffixes[1]) : c \in left.cols}
      \cup {MergedName(c, left, right, key, suffixes[2]) : c \in right.cols \ {key}}

\* left.merge(right, on=key, how='left'): the left rows in order, each once per
\* right row with an equal key (missing keys are equal to each other), in the
\* right frame's order; a left row without a partner keeps missing right cells.
Merge(left, right, key, suffixes) ==
    LET cols == MergedCols(left, right, key, suffixes)
        lcols == {MergedName(c, left, right, key, suffixes[1]) : c \in left.cols}
        LSrc(c) == CHOOSE a \in left.cols :
                      MergedName(a, left, right, key, suffixes[1]) = c
        RSrc(c) == CHOOSE a \in right.cols \ {key} :
                      MergedName(a, left, right, key, suffixes[2]) = c
        Joined(l, r) == [c \in cols |-> IF c \in lcols THEN l[LSrc(c)] ELSE r[RSrc(c)]]
        LeftOnly(l) == [c \in cols |-> IF c \in lcols THEN l[LSrc(c)] ELSE NaCell]
        Partners(l) == SelectSeq(right.rows, LAMBDA r : r[key] = l[key])
        RowsFor(l) == IF Partners(l) = <<>> THEN <<LeftOnly(l)>>
                      ELSE [j \in 1..Len(Partners(l)) |-> Joined(l, Partners(l)[j])]
    IN DataFrame(cols, Flatten([i \in 1..Len(left.rows) |-> RowsFor(left.rows[i])]))

\* pd.concat([a, b], ignore_index=True, sort=False): the union of the columns,
\* the rows of a then the rows of b, missing where a frame lacks the column.
Concat(a, b) ==
    LET cols == a.cols \cup b.cols
        Widen(df) == [i \in 1..Len(df.rows) |->
                        [c \in cols |-> IF c \in df.cols THEN df.rows[i][c] ELSE NaCell]]
    IN DataFrame(cols, Widen(a) \o Widen(b))

\* The first of the names that is not a column, "" when all are.
RECURSIVE FirstMissing(_, _)
FirstMissing(names, cols) ==
    IF names = <<>> THEN ""
    ELSE IF Head(names) \notin cols THEN Head(names)
    ELSE FirstMissing(Tail(names), cols)

\* ------------------------------------------------ stripe_integrity_checker

\* Africa/Lagos is UTC+1 the whole year
TZ_OFFSET_HOURS == 1

\* Whole rupees
AMT_TOL == 10

DATE_WIN_DAYS == 2

\* Series.dt.date of a column converted to TZ
LocalDate(x) == IF x.k = "ts" THEN DateCell((x.n + TZ_OFFSET_HOURS) \div 24) ELSE NaCell

\* pd.to_numeric(errors='coerce')
ToNumeric(x) == IF x.k = "num" THEN x ELSE NaCell

\* pd.to_datetime(utc=True).dt.tz_convert(TZ): the same instant, read in TZ
ToLocalTime(x) == IF x.k = "ts" THEN x ELSE NaCell

\* pd.to_datetime(errors='coerce') then tz_localize(TZ) of a zoneless column:
\* the wall-clock time is taken to be TZ time
LocalizeNaive(x) ==
    IF x.k = "naive" THEN TsCell(x.n - TZ_OFFSET_HOURS)
    ELSE IF x.k = "ts" THEN x ELSE NaCell

_norm_stripe(df) ==
    LET a == SetColumn(df, "amount", [r \in RowSet(df) |-> ToNumeric(r["amount"])])
        b == SetColumn(a, "created", [r \in RowSet(a) |-> ToLocalTime(r["created"])])
    IN IF "status" \notin b.cols
       THEN SetColumn(b, "status", [r \in RowSet(b) |-> SCell("succeeded")])
       ELSE b

_norm_rms(df) ==
    LET a == SetColumn(df, "amount_inr",
                       [r \in RowSet(df) |-> IF "amount_inr" \in df.cols
                                             THEN ToNumeric(r["amount_inr"]) ELSE NaCell])
    IN IF "posted_at" \in a.cols
       THEN SetColumn(a, "posted_at", [r \in RowSet(a) |-> LocalizeNaive(r["posted_at"])])
       ELSE a

Suffixes == <<"_st", "_r">>

NoError == [key |-> "", line |-> 0]

KeyError(key, line) == [key |-> key, line |-> line]

\* The KeyError _primary_match raises, NoError when it returns.
_primary_match_error(stripe_charges, rms) ==
    LET left == Rename(stripe_charges, "invoice_id", "invoice_no")
    IN IF "invoice_no" \notin left.cols \/ "invoice_no" \notin rms.cols
       THEN KeyError("invoice_no", 110)
       ELSE IF "rms_id" \notin MergedCols(left, rms, "invoice_no", Suffixes)
       THEN KeyError("rms_id", 111)
       ELSE NoError

_primary_match(stripe_charges, rms) ==
    LET left == Rename(stripe_charges, "invoice_id", "invoice_no")
        m == Merge(left, rms, "invoice_no", Suffixes)
    IN SetColumn(m, "match_type",
                 [r \in RowSet(m) |-> IF notna(r["rms_id"]) THEN SCell("primary") ELSE NaCell])

\* The frames _fallback_match merges (lines 117-120)
FallbackLeft(stripe_charges) ==
    SetColumn(stripe_charges, "created_date",
              [r \in RowSet(stripe_charges) |-> LocalDate(r["created"])])

FallbackRight(rms) ==
    SetColumn(rms, "posted_date",
              [r \in RowSet(rms) |-> IF "posted_at" \in rms.cols
                                     THEN LocalDate(r["posted_at"]) ELSE NaCell])

amt_match(row) ==
    /\ notna(row["amount"])
    /\ notna(row["amount_inr"])
    /\ Abs(row["amount"].n - row["amount_inr"].n) <= AMT_TOL

\* A failing lookup or subtraction is caught and gives False
_within_window(row) ==
    /\ {"created_date", "posted_date"} \subseteq DOMAIN row
    /\ notna(row["created_date"])
    /\ notna(row["posted_date"])
    /\ Abs(row["created_date"].n - row["posted_date"].n) <= DATE_WIN_DAYS

\* The KeyError _fallback_match raises, NoError when it returns.
_fallback_match_error(stripe_charges, rms) ==
    LET sc == FallbackLeft(stripe_charges)
        rm == FallbackRight(rms)
        mcols == MergedCols(sc, rm, "email", Suffixes)
    IN IF "created" \notin stripe_charges.cols THEN KeyError("created", 118)
       ELSE IF "email" \notin sc.cols \/ "email" \notin rm.cols
       THEN KeyError("email", 122)
       ELSE IF FirstMissing(<<"amount", "amount_inr">>, mcols) # ""
       THEN KeyError(FirstMissing(<<"amount", "amount_inr">>, mcols), 124)
       ELSE IF "match_type" \notin mcols THEN KeyError("match_type", 135)
       ELSE NoError

_fallback_match(stripe_charges, rms) ==
    LET m == Merge(FallbackLeft(stripe_charges), FallbackRight(rms), "email", Suffixes)
        a == SetColumn(m, "amt_match", [r \in RowSet(m) |-> BoolCell(amt_match(r))])
        b == SetColumn(a, "date_match", [r \in RowSet(a) |-> BoolCell(_within_window(r))])
        match_ok(r) == amt_match(r) /\ _within_window(r)
        c == SetColumn(b, "match_ok", [r \in RowSet(b) |-> BoolCell(match_ok(r))])
        d == SetColumn(c, "match_type",
                       [r \in RowSet(c) |-> IF match_ok(r) /\ ~notna(r["match_type"])
                                            THEN SCell("fallback") ELSE r["match_type"]])
    IN Filter(d, {r \in RowSet(d) : r["match_ok"] = BoolCell(TRUE)})

\* df[[names]]
Select(df, names) ==
    LET cols == {names[j] : j \in 1..Len(names)}
    IN DataFrame(cols, [i \in 1..Len(df.rows) |-> [c \in cols |-> df.rows[i][c]]])

\* df.drop_duplicates(): a row equal to an earlier one is dropped
RECURSIVE DropDuplicates(_)
DropDuplicates(rows) ==
    IF rows = <<>> THEN <<>>
    ELSE LET front == DropDuplicates(SubSeq(rows, 1, Len(rows) - 1))
             last == rows[Len(rows)]
         IN IF \E i \in 1..Len(front) : front[i] = last THEN front
            ELSE Append(front, last)

\* The suffixes merge uses when none are given
DefaultSuffixes == <<"_x", "_y">>

\* groupby sorts its keys: the identifiers of the frames below, in
\* lexicographic order
KeyOrder == <<"INV-1001", "INV-1002", "ch_1", "ch_2", "ch_3", "ch_9">>

\* df.groupby(col).size() restricted to n > 1: the keys that occur more than
\* once, in sorted order; rows with a missing key are left out
RepeatedKeys(df, col) ==
    LET Count(key) == Cardinality({i \in 1..Len(df.rows) : df.rows[i][col] = SCell(key)})
    IN SelectSeq(KeyOrder, LAMBDA key : Count(key) > 1)

_norm_refunds(df) ==
    LET a == SetColumn(df, "amount", [r \in RowSet(df) |-> ToNumeric(r["amount"])])
    IN SetColumn(a, "created", [r \in RowSet(a) |-> ToLocalTime(r["created"])])

\* An optional frame: None, or a frame
NoneFrame == [k |-> "none", df |-> DataFrame({}, <<>>)]

SomeFrame(df) == [k |-> "df", df |-> df]

_norm_webhook(odf) ==
    IF odf.k = "none" THEN NoneFrame
    ELSE SomeFrame(SetColumn(odf.df, "created",
                             [r \in RowSet(odf.df) |-> ToLocalTime(r["created"])]))

\* A row of flags_df; reason and fix_suggestion are fixed texts per flag
\* name, but for the counts and amounts they quote, and are left out
Flag(severity, flag, charge_id, invoice_id) == [severity |-> severity, flag |-> flag, charge_id |-> charge_id, invoice_id |-> invoice_id]

SeenColumns == <<"charge_id", "invoice_id", "created">>

\* Lines 161-174
IntegrationFailureFlags(webhook, matches) ==
    IF webhook.k = "none" \/ webhook.df.rows = <<>> THEN <<>>
    ELSE LET picked == Select(webhook.df, SeenColumns)
             seen == DataFrame(picked.cols, DropDuplicates(picked.rows))
             m == Merge(seen, Select(matches, <<"charge_id", "rms_id">>),
                        "charge_id", DefaultSuffixes)
             missing == SelectSeq(m.rows, LAMBDA r : ~notna(r["rms_id"]))
         IN [i \in 1..Len(missing) |->
               Flag("P1", "IntegrationFailure", missing[i]["charge_id"],
                    missing[i]["invoice_id"])]

RefundJoinColumns == <<"charge_id", "invoice_no", "rms_id", "amount_inr">>

\* Line 181: some RMS row has the invoice and a negative amount (a comparison
\* with a missing value is False)
has_credit(rms, r) ==
    \E x \in RowSet(rms) :
        /\ notna(x["invoice_no"]) /\ x["invoice_no"] = r["invoice_no"]
        /\ x["amount_inr"].k = "num" /\ x["amount_inr"].n < 0

\* Lines 176-190
RefundNotPostedFlags(refunds, matches, rms) ==
    IF refunds.rows = <<>> THEN <<>>
    ELSE LET rj == Merge(refunds, Select(matches, RefundJoinColumns),
                         "charge_id", DefaultSuffixes)
             lacking == SelectSeq(rj.rows, LAMBDA r : ~has_credit(rms, r))
         IN [i \in 1..Len(lacking) |->
               Flag("P0", "RefundNotPosted", lacking[i]["charge_id"],
                    lacking[i]["invoice_no"])]

\* Lines 192-201
DuplicateChargeFlags(charges) ==
    LET succeeded == Filter(charges, {r \in RowSet(charges) : r["status"] = SCell("succeeded")})
        dup_st == RepeatedKeys(succeeded, "invoice_id")
    IN [i \in 1..Len(dup_st) |-> Flag("P0", "DuplicateCharge", NaCell, SCell(dup_st[i]))]

\* Lines 203-213
DuplicateRMSFlags(rms) ==
    IF "stripe_charge_id" \notin rms.cols THEN <<>>
    ELSE LET dup_r == RepeatedKeys(rms, "stripe_charge_id")
         IN [i \in 1..Len(dup_r) |-> Flag("P0", "DuplicateRMS", SCell(dup_r[i]), NaCell)]

\* r.get(col)
Get(r, col) == IF col \in DOMAIN r THEN r[col] ELSE NaCell

\* Line 218
amt_ok(r) ==
    /\ notna(Get(r, "amount"))
    /\ notna(Get(r, "amount_inr"))
    /\ Abs(r["amount"].n - r["amount_inr"].n) <= AMT_TOL

\* Lines 229-244: a failing lookup is caught and no flag is added
date_drifts(r) ==
    /\ {"created", "posted_at"} \subseteq DOMAIN r
    /\ notna(r["created"])
    /\ notna(r["posted_at"])
    /\ Abs(LocalDate(r["created"]).n - LocalDate(r["posted_at"]).n) > DATE_WIN_DAYS

\* Lines 215-244, for one match record
PairFlags(r) ==
    (IF amt_ok(r) THEN <<>>
     ELSE <<Flag("P1", "AmountMismatch", Get(r, "charge_id"), Get(r, "invoice_no"))>>)
    \o (IF date_drifts(r)
        THEN <<Flag("P2", "DateDrift", Get(r, "charge_id"), Get(r, "invoice_no"))>>
        ELSE <<>>)

\* The KeyError of the column selections at lines 163, 164 and 179
_flags_error(refunds, webhook, matches) ==
    IF webhook.k # "none" /\ webhook.df.rows # <<>>
         /\ FirstMissing(SeenColumns, webhook.df.cols) # ""
    THEN KeyError(FirstMissing(SeenColumns, webhook.df.cols), 163)
    ELSE IF webhook.k # "none" /\ webhook.df.rows # <<>>
              /\ FirstMissing(<<"charge_id", "rms_id">>, matches.cols) # ""
    THEN KeyError(FirstMissing(<<"charge_id", "rms_id">>, matches.cols), 164)
    ELSE IF refunds.rows # <<>> /\ FirstMissing(RefundJoinColumns, matches.cols) # ""
    THEN KeyError(FirstMissing(RefundJoinColumns, matches.cols), 179)
    ELSE IF refunds.rows # <<>> /\ "charge_id" \notin refunds.cols
    THEN KeyError("charge_id", 179)
    ELSE NoError

\* Lines 158-246
AssembleFlags(charges, refunds, rms, webhook, matches) ==
    IntegrationFailureFlags(webhook, matches)
      \o RefundNotPostedFlags(refunds, matches, rms)
      \o DuplicateChargeFlags(charges)
      \o DuplicateRMSFlags(rms)
      \o Flatten([i \in 1..Len(matches.rows) |-> PairFlags(matches.rows[i])])

UnmatchedColumns == <<"charge_id", "email", "amount", "created", "invoice_no">>

Raised(err) == [status |-> "raised", exc |-> "KeyError", key |-> err.key, line |-> err.line, matches |-> <<>>, flags |-> <<>>]

Returned(matches, flags) == [status |-> "returned", exc |-> "", key |-> "", line |-> 0, matches |-> matches.rows, flags |-> flags]

\* The call's outcome: the exception it raises, or the match records and the
\* flags it returns.
build_matches_and_flags(arg) ==
    LET charges == _norm_stripe(arg.stripe_charges)
        refunds == _norm_refunds(arg.stripe_refunds)
        rms == _norm_rms(arg.rms_rows)
        webhook == _norm_webhook(arg.webhook_log)
        m_primary == _primary_match(charges, rms)
        unmatched == Filter(m_primary, {r \in RowSet(m_primary) : ~notna(r["match_type"])})
        unmatched_ids == {unmatched.rows[i]["charge_id"] : i \in 1..Len(unmatched.rows)}
        pending == Filter(charges, {r \in RowSet(charges) : r["charge_id"] \in unmatched_ids})
        m_fallback == _fallback_match(pending, rms)
        primary == {r \in RowSet(m_primary) : r["match_type"] = SCell("primary")}
        matches == Concat(Filter(m_primary, primary),
                          SetColumn(m_fallback, "match_type",
                                    [r \in RowSet(m_fallback) |-> SCell("fallback")]))
    IN IF _primary_match_error(charges, rms) # NoError
       THEN Raised(_primary_match_error(charges, rms))
       ELSE IF FirstMissing(UnmatchedColumns, m_primary.cols) # ""
       THEN Raised(KeyError(FirstMissing(UnmatchedColumns, m_primary.cols), 149))
       ELSE IF _fallback_match_error(pending, rms) # NoError
       THEN Raised(_fallback_match_error(pending, rms))
       ELSE IF _flags_error(refunds, webhook, matches) # NoError
       THEN Raised(_flags_error(refunds, webhook, matches))
       ELSE Returned(matches, AssembleFlags(charges, refunds, rms, webhook, matches))

\* The frame line 146 binds to m_primary: the rows _primary_match returned,
\* none when it raised.
PrimaryMatchRows(arg) ==
    LET charges == _norm_stripe(arg.stripe_charges)
        rms == _norm_rms(arg.rms_rows)
    IN IF _primary_match_error(charges, rms) # NoError THEN <<>>
       ELSE _primary_match(charges, rms).rows

\* ---------------------------------------------------------- matcher inputs

MaxCharges == 2

MaxRms == 2

ChargeIds == <<"ch_1", "ch_2", "ch_3">>

RmsIds == <<"r1", "r2", "r3">>

\* 2025-09-20T08:00:00Z and 2025-09-20T09:00:00, in hours from 2025-09-01
CreatedAt == 464

PostedAt == 465

\* A charge less its identifier: the identifiers are unique, row i is ch_i
ChargeBodies == [invoice_id : {SCell("INV-1001"), SCell("INV-1002"), NaCell},
                 email : {SCell("a@x.com"), SCell("b@x.com")},
                 amount : {NCell(10000), NCell(10011)},
                 created : {TsCell(CreatedAt)},
                 status : {SCell("succeeded")}]

RmsBodies == [invoice_no : {SCell("INV-1001"), NaCell},
              email : {SCell("a@x.com"), SCell("b@x.com")},
              amount_inr : {NCell(10000)},
              posted_at : {NaiveCell(PostedAt)}]

ChargeColumns == {"charge_id", "invoice_id", "email", "amount", "created", "status"}

RmsColumns == {"rms_id", "invoice_no", "email", "amount_inr", "posted_at"}

\* A frame of the bodies, row i identified by ids[i], cut to the columns cols
FrameOf(bodies, idcol, ids, cols) ==
    DataFrame(cols, [i \in 1..Len(bodies) |->
                       [c \in cols |-> IF c = idcol THEN SCell(ids[i])
                                                   ELSE bodies[i][c]]])

\* The clients' frames: the expected columns, the payer email being the one
\* column either source may leave out.
ChargeFrames ==
    {FrameOf(b, "charge_id", ChargeIds, cols) :
        b \in UNION {[1..n -> ChargeBodies] : n \in 0..MaxCharges},
        cols \in {ChargeColumns, ChargeColumns \ {"email"}}}

RmsFrames ==
    {FrameOf(b, "rms_id", RmsIds, cols) :
        b \in UNION {[1..n -> RmsBodies] : n \in 0..MaxRms},
        cols \in {RmsColumns, RmsColumns \ {"email"}}}

\* 2025-09-21T10:00:00Z
RefundedAt == 490

RefundColumns == {"refund_id", "charge_id", "amount", "created"}

Refund(refund_id, charge_id) == [refund_id |-> SCell(refund_id), charge_id |-> SCell(charge_id), amount |-> NCell(-10000), created |-> TsCell(RefundedAt)]

\* The example's refund: re_1, of a charge that is not among the charges
DummyRefunds == DataFrame(RefundColumns, <<Refund("re_1", "ch_9")>>)

CheckerInputs == [stripe_charges : ChargeFrames, stripe_refunds : {DummyRefunds},
                  rms_rows : RmsFrames, webhook_log : {NoneFrame}]

\* Frames for the flags: charges that differ in invoice, amount, day and
\* status; postings with and without the stripe_charge_id column, one of
\* them a credit; no refund, a refund of ch_1 or the example's refund; no
\* webhook log, an empty one, or events for ch_1 and ch_2.

\* 2025-09-22T08:00:00Z, and 2025-09-22T23:00:00Z which is the 23rd in TZ
CreatedTwoDaysOn == 512

CreatedLateEvening == 527

FlagCharge(invoice, amount, created, status) == [invoice_id |-> SCell(invoice), email |-> SCell("a@x.com"), amount |-> NCell(amount), created |-> TsCell(created), status |-> SCell(status)]

FlagChargeBodies ==
    {FlagCharge("INV-1001", 10000, CreatedAt, "succeeded"),
     FlagCharge("INV-1001", 10010, CreatedTwoDaysOn, "succeeded"),
     FlagCharge("INV-1001", 10011, CreatedLateEvening, "succeeded"),
     FlagCharge("INV-1001", 10000, CreatedAt, "failed"),
     FlagCharge("INV-1002", 10000, CreatedAt, "succeeded"),
     FlagCharge("INV-1002", 10011, CreatedAt, "failed")}

FlagPosting(invoice, amount, charge) == [invoice_no |-> SCell(invoice), email |-> SCell("a@x.com"), amount_inr |-> NCell(amount), posted_at |-> NaiveCell(PostedAt), stripe_charge_id |-> SCell(charge)]

FlagRmsBodies ==
    {FlagPosting("INV-1001", 10000, "ch_1"),
     FlagPosting("INV-1001", -10000, "ch_1"),
     FlagPosting("INV-1002", 10000, "ch_2")}

FlagChargeFrames ==
    {FrameOf(b, "charge_id", ChargeIds, ChargeColumns) :
        b \in UNION {[1..n -> FlagChargeBodies] : n \in 0..MaxCharges}}

FlagRmsFrames ==
    {FrameOf(b, "rms_id", RmsIds, cols) :
        b \in UNION {[1..n -> FlagRmsBodies] : n \in 0..MaxRms},
        cols \in {RmsColumns, RmsColumns \cup {"stripe_charge_id"}}}

RefundFrames ==
    {DataFrame(RefundColumns, <<>>),
     DataFrame(RefundColumns, <<Refund("re_1", "ch_1")>>),
     DummyRefunds}

WebhookColumns == {"event_id", "charge_id", "invoice_id", "created"}

Event(event_id, charge_id, invoice) == [event_id |-> SCell(event_id), charge_id |-> SCell(charge_id), invoice_id |-> SCell(invoice), created |-> TsCell(CreatedAt)]

WebhookLogs ==
    {NoneFrame,
     SomeFrame(DataFrame(WebhookColumns, <<>>)),
     SomeFrame(DataFrame(WebhookColumns, <<Event("evt_1", "ch_1", "INV-1001")>>)),
     SomeFrame(DataFrame(WebhookColumns, <<Event("evt_1", "ch_1", "INV-1001"),
                                           Event("evt_2", "ch_2", "INV-1002")>>))}

FlagInputs == [stripe_charges : FlagChargeFrames, stripe_refunds : RefundFrames,
               rms_rows : FlagRmsFrames, webhook_log : WebhookLogs]


\* ------------------------------------------------------------- cc_monitor
\*
\* A date is a day number; day 0 is a Monday, so date.weekday() is the day
\* number modulo 7 (Monday 0 .. Sunday 6).  HOLIDAYS is the module global
\* read from SETTINGS["holidays"] at import.  production_config.SETTINGS has
\* no "sla" entry and the fallback SETTINGS carries the same three numbers,
\* so the three thresholds are the defaults of the .get calls.

SLA_WDAYS == 3
INVOICE_LATER_DAYS == 14
FINANCE_ESCALATION_DAYS == 30

weekday(d) == d % 7

is_working_day(d) == weekday(d) < 5 /\ d \notin HOLIDAYS

\* The while loop of add_working_days
RECURSIVE AddWorkingLoop(_, _, _)
AddWorkingLoop(cur, added, days) ==
    IF added < days
    THEN AddWorkingLoop(cur + 1, IF is_working_day(cur + 1) THEN added + 1 ELSE added, days)
    ELSE cur

add_working_days(start, days) == AddWorkingLoop(start, 0, days)

\* The while loop of working_days_between
RECURSIVE BetweenLoop(_, _, _)
BetweenLoop(cnt, cur, end) ==
    IF cur < end
    THEN BetweenLoop(IF is_working_day(cur + 1) THEN cnt + 1 ELSE cnt, cur + 1, end)
    ELSE cnt

working_days_between(start, end) ==
    IF end < start THEN 0 ELSE BetweenLoop(0, start, end)

\* pd.to_datetime(df['entered_at'], errors='coerce'): a timestamp stays,
\* None and text that is no timestamp become NaT.
ToDatetimeCoerce(x) == IF x.k = "ts" THEN x ELSE NaCell

\* Mutant of is_overdue: a transaction is overdue on its due date already.
is_overdue_from_due_date(entered_at, today_, sla_due_date) ==
    ~notna(entered_at) /\ today_ >= sla_due_date

\* df['is_overdue'] = df['entered_at'].isna() & (df['today'] > df['sla_due_date'])
is_overdue(entered_at, today_, sla_due_date) ==
    ~notna(entered_at) /\ today_ > sla_due_date

\* (pd.Timestamp(today) - txn_date).dt.days where invoice_later, else 0
invoice_later_age_days(row, today_) ==
    IF row.invoice_later THEN today_ - row.txn_date ELSE 0

\* Mutant of stage_row: D3 only while the working days equal the SLA count.
stage_row_exact_sla(row, today_) ==
    IF row.invoice_later /\ row.invoice_later_age_days >= FINANCE_ESCALATION_DAYS
    THEN "D30"
    ELSE IF row.invoice_later /\ row.invoice_later_age_days >= INVOICE_LATER_DAYS
    THEN "D14"
    ELSE IF row.is_overdue /\ working_days_between(row.txn_date, today_) = SLA_WDAYS
    THEN "D3"
    ELSE "None"

\* stage_row; the row carries is_overdue and invoice_later_age_days, and
\* None is the string "None".
stage_row(row, today_) ==
    IF row.invoice_later /\ row.invoice_later_age_days >= FINANCE_ESCALATION_DAYS
    THEN "D30"
    ELSE IF row.invoice_later /\ row.invoice_later_age_days >= INVOICE_LATER_DAYS
    THEN "D14"
    ELSE IF row.is_overdue /\ working_days_between(row.txn_date, today_) >= SLA_WDAYS
    THEN "D3"
    ELSE "None"

\* The three df.loc assignments of the flag column, the later ones
\* overwriting the earlier ones.
flag_of(row) ==
    IF row.stage \in {"D14", "D30"} /\ ~row.has_receipt THEN "NoReceipt"
    ELSE IF row.stage \in {"D14", "D30"} /\ row.invoice_later THEN "InvoiceLater"
    ELSE IF row.stage = "D3" THEN "LateEntry"
    ELSE "None"

\* One row of classify_cc_rows, column by column in the order of the code.
ClassifyRow(r, today_) ==
    LET entered_at == ToDatetimeCoerce(r.entered_at)
        sla_due_date == add_working_days(r.txn_date, SLA_WDAYS)
        r1 == [txn_id |-> r.txn_id, txn_date |-> r.txn_date,
               has_receipt |-> r.has_receipt, invoice_later |-> r.invoice_later,
               entered_at |-> entered_at, sla_due_date |-> sla_due_date,
               is_overdue |-> is_overdue(entered_at, today_, sla_due_date),
               invoice_later_age_days |-> invoice_later_age_days(r, today_)]
        r2 == [f \in DOMAIN r1 \cup {"stage"} |->
                  IF f = "stage" THEN stage_row(r1, today_) ELSE r1[f]]
    IN [f \in DOMAIN r2 \cup {"flag"} |-> IF f = "flag" THEN flag_of(r2) ELSE r2[f]]

\* classify_cc_rows: the frame is a sequence of rows; the input frame is
\* copied and the result has one row per input row.
classify_cc_rows(df, today_) == [i \in 1..Len(df) |-> ClassifyRow(df[i], today_)]

\* --------------------------------------------------- cc_monitor: inputs

\* The last day a run takes place on
MaxDay == 36

\* Holiday calendars: none, a Thursday, a Friday and the Monday after
HolidaySets == {{}, {3}, {4, 7}}

\* Transactions of a Monday, a Wednesday, a Thursday and a Saturday
TxnDates == {0, 2, 3, 5}

\* entered_at of an export row: None, text that is no timestamp, a timestamp
EnteredAts == {NaCell, SCell("n/a"), TsCell(1)}

CCRows == [txn_id : {"TXN001"}, txn_date : TxnDates, has_receipt : BOOLEAN,
           invoice_later : BOOLEAN, entered_at : EnteredAts]

\* ------------------------------------------- cc_monitor: reminder log
\*
\* The table reminder_log is the sequence of its rows in insertion order
\* (id and timestamp left out).  A run of run_cc_monitor is a process: its
\* calls of already_sent and mark_sent are one SQLite transaction each and
\* its three notifier calls are one step each; nothing spans them.

Key(run_id, audience, stage, txn_id) ==
    [run_id |-> run_id, audience |-> audience, stage |-> stage, txn_id |-> txn_id]

\* SELECT 1 FROM reminder_log WHERE run_id=? AND audience=? AND stage=? AND txn_id=?
already_sent(log, run_id, audience, stage, txn_id) ==
    \E i \in 1..Len(log) : log[i] = Key(run_id, audience, stage, txn_id)

\* Mutant of mark_sent: audience and stage are passed in each other's place.
mark_sent_swapped(log, run_id, audience, stage, txn_id) ==
    IF \E i \in 1..Len(log) : log[i] = Key(run_id, stage, audience, txn_id)
    THEN log
    ELSE Append(log, Key(run_id, stage, audience, txn_id))

\* INSERT OR IGNORE under UNIQUE(run_id, audience, stage, txn_id)
mark_sent(log, run_id, audience, stage, txn_id) ==
    IF \E i \in 1..Len(log) : log[i] = Key(run_id, audience, stage, txn_id)
    THEN log
    ELSE Append(log, Key(run_id, audience, stage, txn_id))

\* The routing of run_cc_monitor: stage and audience, in the order of the
\* three filter_unsent calls
Routes == << [stage |-> "D3", audience |-> "user"],
             [stage |-> "D14", audience |-> "ap"],
             [stage |-> "D30", audience |-> "finance"] >>

\* annotated[annotated['stage'] == stage], as the reminders of one route
RowsOfRoute(ann, route) ==
    LET staged == SelectSeq(ann, LAMBDA r : r.stage = route.stage)
    IN [i \in 1..Len(staged) |->
           [audience |-> route.audience, stage |-> route.stage, txn_id |-> staged[i].txn_id]]

\* d3_user, d14_ap and d30_fin one after the other
StagedReminders(ann) ==
    RowsOfRoute(ann, Routes[1]) \o RowsOfRoute(ann, Routes[2]) \o RowsOfRoute(ann, Routes[3])

Runners == {1, 2}

IdleRun == [pc |-> "idle", run_id |-> 0, annotated |-> <<>>, work |-> <<>>,
            unsent |-> <<>>, i |-> 0]

\* Exports of one to three transactions: late and not entered, entered,
\* invoice-later of 14 days and invoice-later of 35 days on day 35
LateRow == [txn_id |-> "TXN001", txn_date |-> 28, has_receipt |-> FALSE,
            invoice_later |-> FALSE, entered_at |-> NaCell]

EnteredRow == [txn_id |-> "TXN001", txn_date |-> 28, has_receipt |-> TRUE,
               invoice_later |-> FALSE, entered_at |-> TsCell(30)]

InvoiceLaterRow == [txn_id |-> "TXN002", txn_date |-> 21, has_receipt |-> FALSE,
                    invoice_later |-> TRUE, entered_at |-> NaCell]

EscalatedRow == [txn_id |-> "TXN003", txn_date |-> 0, has_receipt |-> FALSE,
                 invoice_later |-> TRUE, entered_at |-> NaCell]

MonitorExports == { <<LateRow>>, <<EnteredRow>>, <<LateRow, InvoiceLaterRow>>,
                    <<EnteredRow, InvoiceLaterRow>>, <<InvoiceLaterRow, EscalatedRow>>,
                    <<LateRow, InvoiceLaterRow, EscalatedRow>> }

\* today_dt of a run: a Monday and the Tuesday after it
RunDays == {35, 36}

\* ------------------------------------------- annotate_fx and batch helper
\*
\* A bank frame is its index labels and its rows in positional order; a
\* row is a record of its cells.  process_bank_statements builds the frame
\* with concat(ignore_index=True), so the labels of a frame are distinct.
\* iterrows() yields (label, row) in positional order and out.at[label, c]
\* assigns to the rows that carry the label.

BankFrame(index, rows) == [index |-> index, rows |-> rows]

NoFrame == BankFrame(<<>>, <<>>)

\* Column assignment: the cells of extra replace or extend those of r.
WithColumns(r, extra) ==
    [f \in DOMAIN r \cup DOMAIN extra |-> IF f \in DOMAIN extra THEN extra[f] ELSE r[f]]

\* The value left at position j by `for idx, row in iterrows(): out.at[idx, c] = vals[row]`:
\* that of the last row carrying the label of j.
AtLabel(index, vals, j) ==
    vals[CHOOSE i \in 1..Len(index) :
            /\ index[i] = index[j]
            /\ \A k \in (i + 1)..Len(index) : index[k] # index[j]]

\* row.get(col): None when the frame has no such column
GetStr(r, col) == IF col \in DOMAIN r THEN r[col] ELSE NoneStr

GetNum(r, col) == IF col \in DOMAIN r THEN r[col] ELSE NoneNum

\* The detect_fx_context call of annotate_fx on one row, under the column
\* mapping the orchestrator and the bank processor pass.
RowContext(r) ==
    detect_fx_context(GetStr(r, "narration"), GetStr(r, "merchant_country_iso2"),
                      GetStr(r, "currency"), GetStr(r, "receipt_currency"),
                      GetNum(r, "expected_inr"), GetNum(r, "amount_inr"))

ContextColumns(c) ==
    [fx_is_foreign |-> c.is_foreign, fx_is_dcc |-> c.is_dcc, fx_currency |-> c.currency,
     fx_source |-> c.fx_source, fx_confidence |-> c.confidence, fx_notes |-> c.notes]

\* Mutant of annotate_fx: every row carries the context of the last row.
annotate_fx_last_row(df) ==
    BankFrame(df.index,
              [j \in 1..Len(df.rows) |->
                  WithColumns(df.rows[j], ContextColumns(RowContext(df.rows[Len(df.rows)])))])

\* annotate_fx: out is a copy of df with the six context columns.
annotate_fx(df) ==
    LET ctxs == [i \in 1..Len(df.rows) |-> RowContext(df.rows[i])]
    IN BankFrame(df.index,
                 [j \in 1..Len(df.rows) |->
                     WithColumns(df.rows[j], ContextColumns(AtLabel(df.index, ctxs, j)))])

\* The analyze_markup call of batch_analyze_markup on one row; fx_context
\* is the dict {"is_dcc": row.get("fx_is_dcc")}.
RowMarkup(r) ==
    analyze_markup(GetNum(r, "foreign_amount"), GetNum(r, "amount_inr"),
                   GetNum(r, "ibr_rate"),
                   FxDict("fx_is_dcc" \in DOMAIN r /\ r.fx_is_dcc))

MarkupColumns(m) ==
    [markup_pct |-> m.markup_pct, inr_diff |-> m.inr_diff, markup_status |-> m.status,
     markup_reason |-> m.reason]

\* batch_analyze_markup: out is a copy of df with the four markup columns.
batch_analyze_markup(df) ==
    LET res == [i \in 1..Len(df.rows) |-> RowMarkup(df.rows[i])]
    IN BankFrame(df.index,
                 [j \in 1..Len(df.rows) |->
                     WithColumns(df.rows[j], MarkupColumns(AtLabel(df.index, res, j)))])

\* The caller's frame after either call: both work on df.copy().
FrameAfterCall(df) == df

\* ------------------------------------------------- bank frames: inputs

BankRow(narration, country, currency, amount_inr, foreign_amount, ibr_rate) ==
    [narration |-> narration, merchant_country_iso2 |-> country, currency |-> currency,
     receipt_currency |-> NoneStr, amount_inr |-> amount_inr,
     foreign_amount |-> foreign_amount, ibr_rate |-> ibr_rate]

Kirana == Str(<<"K","I","R","A","N","A">>)

\* A DCC purchase, a domestic one, USD purchases above and within the
\* tolerances, a purchase in Germany without a rate and one with an
\* amount that is not a number
BankRows == {
    BankRow(Str(<<"D","C","C">>), NoneStr, Str(<<"u","s","d">>), Num(1250000), Num(15000), Num(8200)),
    BankRow(Kirana, NoneStr, NoneStr, Num(45000), NaN, NoneNum),
    BankRow(Kirana, NoneStr, Str(<<"u","s","d">>), Num(1250000), Num(15000), Num(8200)),
    BankRow(Kirana, NoneStr, Str(<<"u","s","d">>), Num(1230000), Num(15000), Num(8200)),
    BankRow(Kirana, Str(<<"D","E">>), NoneStr, Num(1250000), Num(15000), NoneNum),
    BankRow(Str(EUR), Str(<<"D","E">>), NoneStr, NaN, Num(15000), Num(9000)) }

MaxBankRows == 2

RowSeqs == UNION {[1..n -> BankRows] : n \in 1..MaxBankRows}

\* The labels of a frame of n rows: the RangeIndex, or the same labels in
\* reverse after a sort
IndexesOf(n) == { [i \in 1..n |-> i - 1], [i \in 1..n |-> n - i] }

BankFrames == { BankFrame(ix, rows) : <<ix, rows>> \in UNION { IndexesOf(Len(rs)) \X {rs} : rs \in RowSeqs } }

\* -------------------------------------------- reconciliation_orchestrator
\*
\* A run of run_orchestrator is the record orch: pc names the block that
\* runs next, blocks the blocks that have run, errors the stages _err has
\* logged.  The outputs of a block are unbound until the block has run.
\* Timestamps are day numbers.

DAYS_BACK == 7

\* _stripe_block is wrapped in retry(n=2)
STRIPE_TRIES == 2

Unbound == <<"unbound">>

NoBundle == [k |-> "none", run_id |-> 0, since |-> 0, until |-> 0, report_path |-> 0,
             counts |-> [stripe_flags |-> 0, cc_rows |-> 0, fx_rows |-> 0]]

NoSummary == [stripe_flags |-> 0, cc_late_entries |-> 0, cc_invoice_later |-> 0,
              fx_flagged |-> 0]

NoOrchestration ==
    [pc |-> "idle", now |-> 0, blocks |-> <<>>, errors |-> <<>>, malformed |-> {},
     stripe_matches |-> Unbound, stripe_flags |-> Unbound, cc_ann |-> Unbound,
     fx_df |-> BankFrame(<<>>, Unbound), bank |-> NoFrame, rates |-> <<>>,
     summary |-> NoSummary, report_path |-> 0, bundle |-> NoBundle]

\* The empty tables an except clause of run_orchestrator binds.
EmptyOutputs(stage) ==
    CASE stage = "STRIPE_BLOCK" -> [stripe_matches |-> <<>>, stripe_flags |-> <<>>]
      [] stage = "CC_BLOCK" -> [cc_ann |-> <<>>]
      [] stage = "FX_BLOCK" -> [fx_df |-> NoFrame]
      [] stage = "EMAIL" -> <<>>

\* Mutant of Isolate: the exception of a block is logged and raised again.
IsolateReraising(o, stage, next) ==
    [WithColumns(o, EmptyOutputs(stage)) EXCEPT !.errors = Append(@, stage), !.pc = "raised"]

\* An except clause of run_orchestrator: the outputs of the block are
\* bound to empty tables, _err logs the stage and the run goes on.
Isolate(o, stage, next) ==
    [WithColumns(o, EmptyOutputs(stage)) EXCEPT !.errors = Append(@, stage), !.pc = next]

\* c(df) of _summarize and the counts of the bundle: 0 for an empty frame
CountRows(rows) == Len(rows)

\* ---- Stripe block

\* What a client call of run_checker does in one attempt: it raises, or
\* the clients return the frames of the example (one charge, one posting).
StripeFetches == {"client_error", "frames"}

ExampleCheckerInputs ==
    [stripe_charges |-> FrameOf(<<[invoice_id |-> SCell("INV-1001"), email |-> SCell("a@x.com"), amount |-> NCell(10000), created |-> TsCell(CreatedAt), status |-> SCell("succeeded")]>>, "charge_id", ChargeIds, ChargeColumns),
     stripe_refunds |-> DummyRefunds,
     rms_rows |-> FrameOf(<<[invoice_no |-> SCell("INV-1001"), email |-> SCell("a@x.com"), amount_inr |-> NCell(10000), posted_at |-> NaiveCell(PostedAt)]>>, "rms_id", RmsIds, RmsColumns),
     webhook_log |-> NoneFrame]

run_stripe_checker(fetch) ==
    IF fetch = "client_error"
    THEN [status |-> "raised", exc |-> "NotImplementedError", key |-> "", line |-> 0, matches |-> <<>>, flags |-> <<>>]
    ELSE build_matches_and_flags(ExampleCheckerInputs)

\* retry(n): the first attempt that returns, else the last exception
retry(outcomes) ==
    IF \E i \in 1..Len(outcomes) : outcomes[i].status = "returned"
    THEN outcomes[CHOOSE i \in 1..Len(outcomes) :
                     /\ outcomes[i].status = "returned"
                     /\ \A k \in 1..(i - 1) : outcomes[k].status # "returned"]
    ELSE outcomes[Len(outcomes)]

_stripe_block(tries) == retry([i \in 1..Len(tries) |-> run_stripe_checker(tries[i])])

\* ---- CC block

\* The columns classify_cc_rows reads, in the order it reads them
CcRequired == <<"txn_date", "entered_at", "invoice_later", "has_receipt", "txn_id">>

CcExport(cols, rows) == [k |-> "df", cols |-> cols, rows |-> rows]

\* get_cc_export raises, or returns an export: complete, or without the
\* transaction date column
CcExports == { [k |-> "raise", cols |-> {}, rows |-> <<>>],
               CcExport({"txn_id", "has_receipt", "invoice_later", "entered_at"}, <<>>),
               CcExport({"txn_id", "txn_date", "has_receipt", "invoice_later", "entered_at"}, <<LateRow>>),
               CcExport({"txn_id", "txn_date", "has_receipt", "invoice_later", "entered_at"}, <<LateRow, InvoiceLaterRow, EscalatedRow>>) }

\* The rows filter_unsent keeps over the three routes
Unsent(log, run_id, ann) ==
    SelectSeq(StagedReminders(ann),
              LAMBDA k : ~already_sent(log, run_id, k.audience, k.stage, k.txn_id))

\* The three "Record sent" loops
RECURSIVE MarkAll(_, _, _)
MarkAll(log, run_id, ks) ==
    IF ks = <<>> THEN log
    ELSE MarkAll(mark_sent(log, run_id, Head(ks).audience, Head(ks).stage, Head(ks).txn_id),
                 run_id, Tail(ks))

\* run_cc_monitor from call to return: the annotated frame, the reminders
\* handed to the notifier and the log afterwards
run_cc_monitor(df, d, log) ==
    LET ann == classify_cc_rows(df, d)
        unsent == Unsent(log, d, ann)
    IN [annotated |-> ann,
        handed |-> [j \in 1..Len(unsent) |->
                       [key |-> Key(d, unsent[j].audience, unsent[j].stage, unsent[j].txn_id),
                        by |-> 1]],
        log |-> MarkAll(log, d, unsent)]

\* _cc_block: the exception it raises, or what run_cc_monitor returns.
_cc_block(export, d, log) ==
    IF export.k = "raise"
    THEN [status |-> "raised", exc |-> "NotImplementedError", malformed |-> FALSE]
    ELSE IF \E i \in 1..Len(CcRequired) : CcRequired[i] \notin export.cols
    THEN [status |-> "raised", exc |-> "KeyError", malformed |-> TRUE]
    ELSE [status |-> "returned", exc |-> "", malformed |-> FALSE]

\* ---- FX block

\* The column names of a statement that re.search finds for r"date",
\* r"amount" and r"desc|narrat|detail", among the names used here
DateNames == {"Txn Date", "Transaction Date", "Date"}

AmountNames == {"Amount (INR)", "Amount"}

DescNames == {"Txn Description", "Description", "Narration"}

HDFC_COLMAPS == << {"Txn Date", "Txn Description", "Amount (INR)", "Card No"},
                   {"Transaction Date", "Description", "Amount", "Card Number"} >>

_profile_hdfc(columns) == \E i \in 1..Len(HDFC_COLMAPS) : HDFC_COLMAPS[i] \subseteq columns

\* parse_bank_statement on a statement with the given column names whose
\* canonical rows are frame: a profile maps it, or the heuristic mapping
\* does, or RuntimeError("Unable to map statement columns ...").
parse_bank_statement(columns, frame) ==
    IF _profile_hdfc(columns)
    THEN [status |-> "returned", exc |-> "", df |-> frame]
    ELSE IF columns \cap DateNames # {} /\ columns \cap AmountNames # {} /\ columns \cap DescNames # {}
    THEN [status |-> "returned", exc |-> "", df |-> frame]
    ELSE [status |-> "raised", exc |-> "RuntimeError", df |-> NoFrame]

\* get_rate for one row: a rate (82.50), None, or an exception
RateError == [k |-> "raise", v |-> 0]

RateOutcomes == {Num(8250), NoneNum, RateError}

\* The rows _fx_block calls get_rate for
LooksUpRate(r) ==
    r.fx_is_foreign /\ r.fx_currency # <<>> /\ GetNum(r, "foreign_amount").k = "num"

\* (rate or 0) * float(foreign_amount), in hundredths
ExpectedInr(r, rate) ==
    IF LooksUpRate(r)
    THEN Num(((IF rate.k = "num" THEN rate.v ELSE 0) * r.foreign_amount.v) \div 100)
    ELSE NoneNum

\* _fx_block on the loader's frame; rates[i] is what get_rate does for
\* row i when it is called for it.
_fx_block(bank_df, rates) ==
    IF bank_df.rows = <<>>
    THEN [status |-> "returned", exc |-> "", df |-> NoFrame]
    ELSE LET fx_df == annotate_fx(bank_df)
             n == Len(fx_df.rows)
             expected == BankFrame(fx_df.index,
                                   [i \in 1..n |->
                                       WithColumns(fx_df.rows[i],
                                                   [expected_inr |-> ExpectedInr(fx_df.rows[i], rates[i])])])
         IN IF \E i \in 1..n : LooksUpRate(fx_df.rows[i]) /\ rates[i].k = "raise"
            THEN [status |-> "raised", exc |-> "RateError", df |-> NoFrame]
            ELSE [status |-> "returned", exc |-> "", df |-> batch_analyze_markup(expected)]

\* Statements the bank loader parses: an HDFC export, a generic export and
\* one without a date column
StatementColumns == { {"Txn Date", "Txn Description", "Amount (INR)", "Card No"},
                      {"Date", "Amount", "Narration"},
                      {"Amount", "Narration"} }

\* The rows of a statement: a DCC purchase, a USD purchase above the
\* tolerance and a purchase in Germany without a stored rate
OrchBankRows == {r \in BankRows : r.amount_inr = Num(1250000)}

OrchBankFrames ==
    { BankFrame([i \in 1..Len(rs) |-> i - 1], rs) :
        rs \in UNION {[1..n -> OrchBankRows] : n \in 1..MaxBankRows} }

\* ---- summary, report and bundle

CountWhere(rows, field, value) == Cardinality({i \in 1..Len(rows) : rows[i][field] = value})

_summarize(o) ==
    [stripe_flags |-> CountRows(o.stripe_flags),
     cc_late_entries |-> CountWhere(o.cc_ann, "flag", "LateEntry"),
     cc_invoice_later |-> CountWhere(o.cc_ann, "flag", "InvoiceLater"),
     fx_flagged |-> CountWhere(o.fx_df.rows, "markup_status", "FLAGGED")]

\* The report is named after the run id
_write_report(run_id) == run_id

\* The dict run_orchestrator returns
Bundle(o) ==
    [k |-> "dict", run_id |-> o.now, since |-> o.now - DAYS_BACK, until |-> o.now,
     report_path |-> o.report_path,
     counts |-> [stripe_flags |-> CountRows(o.stripe_flags),
                 cc_rows |-> CountRows(o.cc_ann),
                 fx_rows |-> CountRows(o.fx_df.rows)]]

\* ----------------------------------------------------------- state machine

NoTxn == [narration |-> NoneStr, merchant_country_iso2 |-> NoneStr,
          stated_currency |-> NoneStr, receipt_currency |-> NoneStr,
          amounts |-> <<NoneNum, NoneNum>>]

NoCtx == FXContext(FALSE, FALSE, <<>>, "None", 0, "")

NoArgs == [foreign_amount |-> NoneNum, charged_inr |-> NoneNum,
           interbank_rate |-> NoneNum, fx_context |-> FxNone]

NoResult == [is_flagged |-> FALSE, markup_pct |-> NoneNum, inr_diff |-> NoneNum,
             status |-> "", reason |-> <<>>]

NoInputs == [stripe_charges |-> DataFrame({}, <<>>), stripe_refunds |-> DataFrame({}, <<>>),
             rms_rows |-> DataFrame({}, <<>>), webhook_log |-> NoneFrame]

NoRun == [status |-> "none", exc |-> "", key |-> "", line |-> 0, matches |-> <<>>, flags |-> <<>>]

\* The module globals are read from SETTINGS at import; nothing has been called.
InitCalls ==
    /\ cfg \in Configs
    /\ op = "idle"
    /\ txn = NoTxn
    /\ ctx = NoCtx
    /\ prev_ctx = NoCtx
    /\ ncalls = 0
    /\ margs = NoArgs
    /\ mres = NoResult
    /\ inputs = NoInputs
    /\ run = NoRun
    /\ given = NoInputs
    /\ m_primary_rows = <<>>
    /\ prev_run = NoRun
    /\ nruns = 0

\* The credit-card monitor has not run.
InitMonitorIdle ==
    /\ cc_df = <<>>
    /\ today = 0
    /\ annotated = <<>>
    /\ prev_annotated = <<>>
    /\ reminder_log = <<>>
    /\ handed = <<>>
    /\ procs = [p \in Runners |-> IdleRun]
    /\ nstarted = 0

\* Neither batch helper has been called.
InitFramesIdle ==
    /\ frame_in = NoFrame
    /\ frame_kept = NoFrame
    /\ frame_out = NoFrame

Init == InitCalls /\ InitMonitorIdle /\ InitFramesIdle /\ orch = NoOrchestration /\ HOLIDAYS = {}

\* One call of detect_fx_context on a transaction drawn from S.
DetectFx(S) ==
    /\ \E t \in S :
          /\ txn' = t
          /\ ctx' = detect_fx_context(t.narration, t.merchant_country_iso2,
                                      t.stated_currency, t.receipt_currency,
                                      t.amounts[1], t.amounts[2])
    /\ prev_ctx' = ctx
    /\ ncalls' = ncalls + 1
    /\ op' = "detect_fx_context"
    /\ UNCHANGED <<cfg, margs, mres, inputs, run, given, m_primary_rows, prev_run, nruns, cc_vars, mon_vars, frame_vars, orch>>

\* A process that classifies one transaction.
ClassifyOne ==
    /\ ncalls = 0
    /\ DetectFx(TxnInputs)

NextDetect == ClassifyOne

\* The classifier reads only fx_inr_tolerance of the configuration.
InitDetect == Init /\ cfg.fx_markup_tolerance_pct = DEFAULT_FX_MARKUP_TOL

SpecDetect == InitDetect /\ [][NextDetect]_vars

\* A process that classifies MaxCalls transactions one after the other,
\* keeping the previous result; the transactions come from a smaller set.
MaxCalls == 2

PairInputs == [narration : {NoneStr, Str(USD), Str(<<"D","C","C">>),
                            Str(<<"K","I","R","A","N","A">>)},
               merchant_country_iso2 : {NoneStr, Str(<<"D","E">>)},
               stated_currency : {NoneStr, Str(<<"e","u","r">>)},
               receipt_currency : {NoneStr, Str(<<"g","b","p">>)},
               amounts : {<<NoneNum, NoneNum>>}]

ClassifyNext ==
    /\ ncalls < MaxCalls
    /\ DetectFx(PairInputs)

NextPair == ClassifyNext

SpecPair == InitDetect /\ [][NextPair]_vars

\* Hundredths: 0, 1.00, 50.00, 100.00, 150.00 and a refund of 100.00
ForeignAmounts == {NoneNum, NaN, Num(0), Num(100), Num(101), Num(5000),
                   Num(10000), Num(15000), Num(-10000)}

ChargedAmounts == {NoneNum, NaN, Num(0), Num(8300), Num(400500), Num(410000),
                   Num(410001), Num(800000), Num(880000), Num(1234500),
                   Num(-820000)}

Rates == {NoneNum, NaN, Num(0), Num(8000), Num(8200), Num(8255)}

FxContexts == {FxNone, FxEmpty, FxDict(FALSE), FxDict(TRUE)}

MarkupArgs == [foreign_amount : ForeignAmounts, charged_inr : ChargedAmounts,
               interbank_rate : Rates, fx_context : FxContexts]

\* One direct call of analyze_markup.
AnalyzeMarkup ==
    /\ op = "idle"
    /\ \E a \in MarkupArgs :
          /\ margs' = a
          /\ mres' = analyze_markup(a.foreign_amount, a.charged_inr,
                                    a.interbank_rate, a.fx_context)
    /\ op' = "analyze_markup"
    /\ UNCHANGED <<cfg, txn, ctx, prev_ctx, ncalls, inputs, run, given, m_primary_rows,
                   prev_run, nruns, cc_vars, mon_vars, frame_vars, orch>>

NextMarkup == AnalyzeMarkup

SpecMarkup == Init /\ [][NextMarkup]_vars

\* The caller's frames had each _norm_* assigned its columns to df itself
InputsNormalisedInPlace(arg) == [stripe_charges |-> _norm_stripe(arg.stripe_charges), stripe_refunds |-> _norm_refunds(arg.stripe_refunds), rms_rows |-> _norm_rms(arg.rms_rows), webhook_log |-> _norm_webhook(arg.webhook_log)]

\* The caller's frames after the call: each _norm_* works on df.copy() and
\* the merges, selections and concat build new frames, so they are as given.
InputsAfterRun(arg) == arg

\* One call of build_matches_and_flags on inputs drawn from S; the caller
\* keeps its frames and the previous outcome.
RunChecker(S) ==
    /\ \E i \in S :
          /\ given' = i
          /\ m_primary_rows' = PrimaryMatchRows(i)
          /\ run' = build_matches_and_flags(i)
          /\ inputs' = InputsAfterRun(i)
    /\ prev_run' = run
    /\ nruns' = nruns + 1
    /\ op' = "build_matches_and_flags"
    /\ UNCHANGED <<cfg, txn, ctx, prev_ctx, ncalls, margs, mres, cc_vars, mon_vars, frame_vars, orch>>

\* One run of the matcher on the frames the two clients returned.
BuildMatchesAndFlags ==
    /\ op = "idle"
    /\ RunChecker(CheckerInputs)

NextMatch == BuildMatchesAndFlags

\* The matcher reads neither of the two FX tolerances.
InitMatch == InitDetect /\ cfg.fx_inr_tolerance = DEFAULT_FX_INR_TOL

SpecMatch == InitMatch /\ [][NextMatch]_vars

\* One run of the matcher with refunds and a webhook log.
CheckWithFlags ==
    /\ op = "idle"
    /\ RunChecker(FlagInputs)

NextFlags == CheckWithFlags

SpecFlags == InitMatch /\ [][NextFlags]_vars

\* A caller that runs the matcher and then runs it again on the frames it
\* still holds, MaxRuns times in all.
MaxRuns == 2

RerunInputs == [stripe_charges : FlagChargeFrames,
                stripe_refunds : {DataFrame(RefundColumns, <<Refund("re_1", "ch_1")>>)},
                rms_rows : FlagRmsFrames,
                webhook_log : {NoneFrame,
                               SomeFrame(DataFrame(WebhookColumns,
                                                   <<Event("evt_1", "ch_1", "INV-1001")>>))}]

FirstRun ==
    /\ nruns = 0
    /\ RunChecker(RerunInputs)

RunAgain ==
    /\ nruns >= 1
    /\ nruns < MaxRuns
    /\ RunChecker({inputs})

NextRerun == FirstRun \/ RunAgain

SpecRerun == InitMatch /\ [][NextRerun]_vars

\* ------------------------------------------------ cc_monitor: classifier

\* One call of classify_cc_rows; the caller keeps the previous result.
Classify(df, d) ==
    /\ cc_df' = df
    /\ today' = d
    /\ annotated' = classify_cc_rows(df, d)
    /\ prev_annotated' = annotated
    /\ op' = "classify_cc_rows"
    /\ UNCHANGED <<calls_vars, HOLIDAYS, mon_vars, frame_vars, orch>>

\* The export of one transaction is classified on some day.
ClassifyExport ==
    /\ op = "idle"
    /\ \E r \in CCRows, d \in 0..MaxDay : Classify(<<r>>, d)

\* The same export is classified again on the next day.
ClassifyNextDay ==
    /\ op = "classify_cc_rows"
    /\ today < MaxDay
    /\ Classify(cc_df, today + 1)

NextAgeing == ClassifyExport \/ ClassifyNextDay

\* The monitor reads none of the FX tolerances; its holiday calendar is
\* one of HolidaySets.
InitAgeing ==
    /\ InitCalls
    /\ cfg.fx_markup_tolerance_pct = DEFAULT_FX_MARKUP_TOL
    /\ cfg.fx_inr_tolerance = DEFAULT_FX_INR_TOL
    /\ InitMonitorIdle
    /\ InitFramesIdle
    /\ orch = NoOrchestration
    /\ HOLIDAYS \in HolidaySets

SpecAgeing == InitAgeing /\ [][NextAgeing]_vars

\* -------------------------------------------- cc_monitor: run_cc_monitor

\* run_cc_monitor up to the first already_sent: run_id is the date of
\* today_dt, the export is classified and split by stage.
BeginRun(p, df, d) ==
    LET ann == classify_cc_rows(df, d)
        work == StagedReminders(ann)
    IN /\ procs' = [procs EXCEPT ![p] =
                       [pc |-> IF work = <<>> THEN "send" ELSE "filter", run_id |-> d,
                        annotated |-> ann, work |-> work, unsent |-> <<>>, i |-> 1]]
       /\ nstarted' = nstarted + 1
       /\ op' = "run_cc_monitor"
       /\ UNCHANGED <<calls_vars, cc_vars, frame_vars, orch, reminder_log, handed>>

\* One iteration of a filter_unsent loop: one already_sent call.
FilterNext(p) ==
    LET me == procs[p]
        k == me.work[me.i]
        sent == already_sent(reminder_log, me.run_id, k.audience, k.stage, k.txn_id)
    IN /\ me.pc = "filter"
       /\ procs' = [procs EXCEPT ![p] =
                       [me EXCEPT !.unsent = IF sent THEN @ ELSE Append(@, k),
                                  !.i = IF me.i = Len(me.work) THEN 1 ELSE @ + 1,
                                  !.pc = IF me.i = Len(me.work) THEN "send" ELSE @]]
       /\ UNCHANGED <<op, calls_vars, cc_vars, frame_vars, orch, reminder_log, handed, nstarted>>

\* One of notifier.send_user, send_ap and send_finance: the unsent rows of
\* its route are handed to the notifier.
SendNext(p) ==
    LET me == procs[p]
        rows == SelectSeq(me.unsent, LAMBDA k : k.audience = Routes[me.i].audience)
        out == [j \in 1..Len(rows) |->
                   [key |-> Key(me.run_id, rows[j].audience, rows[j].stage, rows[j].txn_id),
                    by |-> p]]
    IN /\ me.pc = "send"
       /\ handed' = handed \o out
       /\ procs' = [procs EXCEPT ![p] =
                       [me EXCEPT !.i = IF me.i = Len(Routes) THEN 1 ELSE @ + 1,
                                  !.pc = IF me.i < Len(Routes) THEN @
                                         ELSE IF me.unsent = <<>> THEN "done" ELSE "mark"]]
       /\ UNCHANGED <<op, calls_vars, cc_vars, frame_vars, orch, reminder_log, nstarted>>

\* One iteration of the three "Record sent" loops: one mark_sent call.
MarkNext(p) ==
    LET me == procs[p]
        k == me.unsent[me.i]
    IN /\ me.pc = "mark"
       /\ reminder_log' = mark_sent(reminder_log, me.run_id, k.audience, k.stage, k.txn_id)
       /\ procs' = [procs EXCEPT ![p] =
                       [me EXCEPT !.i = @ + 1,
                                  !.pc = IF me.i = Len(me.unsent) THEN "done" ELSE @]]
       /\ UNCHANGED <<op, calls_vars, cc_vars, frame_vars, orch, handed, nstarted>>

StepRun(p) == FilterNext(p) \/ SendNext(p) \/ MarkNext(p)

\* Runs one after the other, as a scheduler starts them: a run starts when
\* the run before it has returned, MaxMonitorRuns runs in all.
MaxMonitorRuns == 2

StartNextRun ==
    /\ nstarted < MaxMonitorRuns
    /\ procs[1].pc \in {"idle", "done"}
    /\ \E df \in MonitorExports, d \in RunDays : BeginRun(1, df, d)

ContinueRun == StepRun(1)

NextReminders == StartNextRun \/ ContinueRun

SpecReminders == InitAgeing /\ [][NextReminders]_vars

\* Two runs started independently of each other on the same export, each
\* once; their steps interleave.
StartConcurrentRun ==
    \E p \in Runners :
        /\ procs[p].pc = "idle"
        /\ \E df \in MonitorExports, d \in RunDays : BeginRun(p, df, d)

StepConcurrentRun == \E p \in Runners : StepRun(p)

NextConcurrent == StartConcurrentRun \/ StepConcurrentRun

SpecConcurrent == InitAgeing /\ [][NextConcurrent]_vars

\* ------------------------------------------------- batch helpers: calls

\* annotate_fx on a bank frame.
AnnotateFx ==
    /\ op = "idle"
    /\ \E df \in BankFrames :
          /\ frame_in' = df
          /\ frame_out' = annotate_fx(df)
          /\ frame_kept' = FrameAfterCall(df)
    /\ op' = "annotate_fx"
    /\ UNCHANGED <<calls_vars, cc_vars, mon_vars, orch>>

\* batch_analyze_markup on the frame annotate_fx returned.
BatchAnalyzeMarkup ==
    /\ op = "annotate_fx"
    /\ frame_in' = frame_out
    /\ frame_out' = batch_analyze_markup(frame_out)
    /\ frame_kept' = FrameAfterCall(frame_out)
    /\ op' = "batch_analyze_markup"
    /\ UNCHANGED <<calls_vars, cc_vars, mon_vars, orch>>

NextAnnotate == AnnotateFx \/ BatchAnalyzeMarkup

SpecAnnotate == InitMatch /\ [][NextAnnotate]_vars

\* ------------------------------------------- orchestrator: run_orchestrator

\* The days a run takes place on
OrchDays == {35}

\* 1) Stripe integrity block
StripeBlock ==
    /\ op = "idle"
    /\ orch.pc = "idle"
    /\ \E tries \in [1..STRIPE_TRIES -> StripeFetches], d \in OrchDays :
          \E out \in {_stripe_block(tries)} :
             LET o == [orch EXCEPT !.now = d, !.blocks = Append(@, "stripe")]
             IN orch' = IF out.status = "raised"
                        THEN Isolate(o, "STRIPE_BLOCK", "cc")
                        ELSE [o EXCEPT !.stripe_matches = out.matches,
                                       !.stripe_flags = out.flags, !.pc = "cc"]
    /\ op' = "run_orchestrator"
    /\ UNCHANGED <<calls_vars, cc_vars, mon_vars, frame_vars>>

\* 2) CC block: the export is fetched and run_cc_monitor runs on it.
CcBlock ==
    /\ orch.pc = "cc"
    /\ \E export \in CcExports :
          LET o == [orch EXCEPT !.blocks = Append(@, "cc")]
              out == _cc_block(export, orch.now, reminder_log)
              res == run_cc_monitor(export.rows, orch.now, reminder_log)
          IN IF out.status = "raised"
             THEN /\ orch' = Isolate([o EXCEPT !.malformed =
                                          IF out.malformed THEN @ \cup {"cc_export"} ELSE @],
                                     "CC_BLOCK", "fx")
                  /\ UNCHANGED <<reminder_log, handed>>
             ELSE /\ orch' = [o EXCEPT !.cc_ann = res.annotated, !.pc = "fx"]
                  /\ reminder_log' = res.log
                  /\ handed' = handed \o res.handed
    /\ UNCHANGED <<op, calls_vars, cc_vars, frame_vars, procs, nstarted>>

\* 3) FX block without a bank loader: bank_df is an empty frame.
FxBlockNoLoader ==
    /\ orch.pc = "fx"
    /\ orch' = [orch EXCEPT !.blocks = Append(@, "fx"),
                             !.fx_df = _fx_block(NoFrame, <<>>).df, !.pc = "report"]
    /\ UNCHANGED <<op, calls_vars, cc_vars, mon_vars, frame_vars>>

\* 3) FX block: the loader parses a statement and _fx_block runs on its
\* rows, get_rate doing one of RateOutcomes for each row.
FxBlock ==
    /\ orch.pc = "fx"
    /\ \E columns \in StatementColumns, frame \in OrchBankFrames :
          \E rates \in [1..Len(frame.rows) -> RateOutcomes] :
             LET o == [orch EXCEPT !.blocks = Append(@, "fx")]
                 loaded == parse_bank_statement(columns, frame)
                 out == _fx_block(loaded.df, rates)
             IN orch' = IF loaded.status = "raised"
                        THEN Isolate([o EXCEPT !.malformed = @ \cup {"bank_statement"}],
                                     "FX_BLOCK", "report")
                        ELSE IF out.status = "raised"
                        THEN Isolate([o EXCEPT !.bank = loaded.df, !.rates = rates],
                                     "FX_BLOCK", "report")
                        ELSE [o EXCEPT !.bank = loaded.df, !.rates = rates,
                                       !.fx_df = out.df, !.pc = "report"]
    /\ UNCHANGED <<op, calls_vars, cc_vars, mon_vars, frame_vars>>

\* 4) Summary and report
SummaryAndReport ==
    /\ orch.pc = "report"
    /\ orch' = [orch EXCEPT !.blocks = Append(@, "report"), !.summary = _summarize(orch),
                             !.report_path = _write_report(orch.now), !.pc = "email"]
    /\ UNCHANGED <<op, calls_vars, cc_vars, mon_vars, frame_vars>>

\* 5) Digest email, which send_summary delivers or fails to, and the
\* return of the bundle
DigestAndReturn ==
    /\ orch.pc = "email"
    /\ \E delivered \in BOOLEAN :
          LET o == [orch EXCEPT !.blocks = Append(@, "email")]
              after == IF delivered THEN [o EXCEPT !.pc = "done"] ELSE Isolate(o, "EMAIL", "done")
          IN orch' = [after EXCEPT !.bundle = IF after.pc = "done" THEN Bundle(after) ELSE @]
    /\ UNCHANGED <<op, calls_vars, cc_vars, mon_vars, frame_vars>>

NextOrchestrator ==
    StripeBlock \/ CcBlock \/ FxBlockNoLoader \/ FxBlock \/ SummaryAndReport \/ DigestAndReturn

SpecOrchestrator == InitMatch /\ [][NextOrchestrator]_vars

\* ------------------------------------------------- claims: markup_analyzer

Analyzed == op = "analyze_markup"

IsDccArg == margs.fx_context.k = "dict" /\ margs.fx_context.is_dcc

\* A numeric input that was given: neither None nor, for the foreign
\* amount, zero
Given(x) == x.k # "none"

AllGivenNonZero ==
    /\ margs.foreign_amount.k = "num" /\ margs.foreign_amount.v # 0
    /\ margs.charged_inr.k = "num" /\ margs.charged_inr.v # 0
    /\ margs.interbank_rate.k = "num" /\ margs.interbank_rate.v # 0

\* C1 (as claimed): whenever the FX context passed to analyze_markup has
\* is_dcc true, the status is BYPASS, whatever the three numeric inputs are,
\* absent ones included.
C1_DccAlwaysBypassed == (Analyzed /\ IsDccArg) => mres.status = "BYPASS"

\* C3 (as claimed): the status is SKIPPED if and only if the foreign amount,
\* the charged amount or the rate is absent, a zero foreign amount counting
\* as absent; a charged amount of zero is present.
C3_SkippedIffAbsent ==
    Analyzed =>
        (mres.status = "SKIPPED"
            <=> \/ ~Given(margs.foreign_amount)
                \/ margs.foreign_amount = Num(0)
                \/ ~Given(margs.charged_inr)
                \/ ~Given(margs.interbank_rate))

\* C4: for a non-DCC call with the three inputs present and non-zero the
\* status is FLAGGED iff the rounded markup percentage is above the
\* percentage tolerance or the rounded |deviation| is above the absolute
\* tolerance, and OK otherwise; equality with a tolerance does not flag.
\* Under the default tolerances 150 / 12345 / 82.0 is OK with 0.37 % and 45,
\* 100 / 8800 / 82.0 is FLAGGED with 7.32 % and 600.
C4_FlaggedIffThreshold ==
    (Analyzed /\ ~IsDccArg /\ AllGivenNonZero) =>
        /\ mres.status \in {"OK", "FLAGGED"}
        /\ mres.markup_pct.k = "num" /\ mres.inr_diff.k = "num"
        /\ mres.status = "FLAGGED"
               <=> \/ mres.markup_pct.v > cfg.fx_markup_tolerance_pct
                   \/ Abs(mres.inr_diff.v) > cfg.fx_inr_tolerance
        /\ mres.inr_diff.v
               = RoundDiv(100 * margs.charged_inr.v
                          - margs.foreign_amount.v * margs.interbank_rate.v, 100)
        /\ (margs.foreign_amount = Num(15000) /\ margs.charged_inr = Num(1234500)
            /\ margs.interbank_rate = Num(8200))
               => (mres.markup_pct = Num(37) /\ mres.inr_diff = Num(4500)
                   /\ mres.status = "OK")
        /\ (margs.foreign_amount = Num(10000) /\ margs.charged_inr = Num(880000)
            /\ margs.interbank_rate = Num(8200))
               => (mres.markup_pct = Num(732) /\ mres.inr_diff = Num(60000)
                   /\ mres.status = "FLAGGED")
        /\ (margs.foreign_amount = Num(5000) /\ margs.interbank_rate = Num(8000)
            /\ margs.charged_inr \in {Num(410000), Num(410001)})
               => mres.markup_pct = Num(250)

\* C4 witness: markup exactly 2.50 % and deviation exactly 100.00 under the
\* default tolerances, and the result is OK.
C4_Witness ==
    /\ Analyzed /\ ~IsDccArg /\ AllGivenNonZero
    /\ mres.markup_pct = Num(cfg.fx_markup_tolerance_pct)
    /\ mres.inr_diff = Num(cfg.fx_inr_tolerance)
    /\ mres.status = "OK"

Cites(what) == \E i \in 1..Len(mres.reason) : mres.reason[i].cites = what

\* C5: a FLAGGED result's reason cites the percentage breach iff the markup
\* percentage exceeds its tolerance and the absolute breach iff |deviation|
\* exceeds its tolerance, each at most once.
C5_ReasonListsBreaches ==
    (Analyzed /\ mres.status = "FLAGGED") =>
        /\ Cites("Markup") <=> mres.markup_pct.v > cfg.fx_markup_tolerance_pct
        /\ Cites("INR difference") <=> Abs(mres.inr_diff.v) > cfg.fx_inr_tolerance
        /\ Len(mres.reason) = Cardinality({mres.reason[i].cites : i \in 1..Len(mres.reason)})

\* C5 witness: both tolerances breached and both cited.
C5_Witness ==
    /\ Analyzed /\ mres.status = "FLAGGED"
    /\ mres.markup_pct.v > cfg.fx_markup_tolerance_pct
    /\ Abs(mres.inr_diff.v) > cfg.fx_inr_tolerance
    /\ Cites("Markup") /\ Cites("INR difference")

\* C6: a SKIPPED or BYPASS result has both numeric outputs None and is not
\* flagged; an OK or FLAGGED result has both numeric outputs not None; and
\* is_flagged is true exactly when the status is FLAGGED.
C6_ResultConsistent ==
    Analyzed =>
        /\ mres.status \in {"SKIPPED", "BYPASS", "OK", "FLAGGED"}
        /\ mres.status \in {"SKIPPED", "BYPASS"}
               => (mres.markup_pct = NoneNum /\ mres.inr_diff = NoneNum
                   /\ ~mres.is_flagged)
        /\ mres.status \in {"OK", "FLAGGED"}
               => (mres.markup_pct.k # "none" /\ mres.inr_diff.k # "none")
        /\ mres.is_flagged <=> mres.status = "FLAGGED"

\* C6 witness: a FLAGGED result carrying both numbers.
C6_Witness ==
    /\ Analyzed /\ mres.status = "FLAGGED" /\ mres.is_flagged
    /\ mres.markup_pct.k = "num" /\ mres.inr_diff.k = "num"

\* ---------------------------------------------------- claims: fx_detector

Classified == op = "detect_fx_context"

\* The conditions of the rules, from the inputs of the call.
HasDccMarker == TruthyStr(txn.narration) /\ DCC_REGEX(txn.narration.s)

StatedForeign == TruthyStr(txn.stated_currency) /\ Upper(txn.stated_currency.s) # INR

ReceiptForeign == TruthyStr(txn.receipt_currency) /\ Upper(txn.receipt_currency.s) # INR

HintedCcy == _find_currency_in_text(OrEmpty(txn.narration))

CountryCcy == _infer_from_country(txn.merchant_country_iso2)

NotesDcc == "DCC detected in narration; markup analysis bypassed."
NotesStatement == "Foreign currency explicitly present in statement."
NotesReceipt == "Currency taken from attached receipt."
NotesNarration == "Currency inferred from narration hints."
NotesCountry == "Currency inferred from merchant country."
NotesDefault == "No reliable foreign markers; assumed INR."

\* C2: a context with is_dcc true has is_foreign false, currency INR and
\* confidence 1.0, and a DCC marker in the narration yields is_dcc true
\* whatever the stated and receipt currencies are.
C2_DccContext ==
    Classified =>
        /\ ctx.is_dcc => (~ctx.is_foreign /\ ctx.currency = INR /\ ctx.confidence = 100)
        /\ HasDccMarker => ctx.is_dcc

\* C2 witness: a DCC marker together with a foreign stated and a foreign
\* receipt currency.
C2_Witness ==
    /\ Classified /\ ctx.is_dcc /\ ~ctx.is_foreign
    /\ StatedForeign /\ ReceiptForeign

\* C7: the first rule that matches, in the order DCC marker, stated
\* currency, receipt currency, narration hint, merchant country, decides
\* the result alone; with none matching the result is domestic.
C7_FirstMatchWins ==
    Classified =>
        LET first == IF HasDccMarker THEN "dcc"
                     ELSE IF StatedForeign THEN "stated"
                     ELSE IF ReceiptForeign THEN "receipt"
                     ELSE IF TruthyStr(HintedCcy) THEN "hint"
                     ELSE IF TruthyStr(CountryCcy) THEN "country"
                     ELSE "domestic"
        IN /\ first = "dcc" => (ctx.notes = NotesDcc /\ ctx.is_dcc)
           /\ first = "stated"
                  => (ctx.notes = NotesStatement /\ ctx.is_foreign
                      /\ ctx.currency = Upper(txn.stated_currency.s))
           /\ first = "receipt"
                  => (ctx.notes = NotesReceipt /\ ctx.is_foreign
                      /\ ctx.currency = Upper(txn.receipt_currency.s))
           /\ first = "hint"
                  => (ctx.notes = NotesNarration /\ ctx.is_foreign
                      /\ ctx.currency = HintedCcy.s)
           /\ first = "country"
                  => (ctx.notes = NotesCountry /\ ctx.is_foreign
                      /\ ctx.currency = CountryCcy.s)
           /\ first = "domestic"
                  => (ctx.notes = NotesDefault /\ ~ctx.is_foreign /\ ~ctx.is_dcc
                      /\ ctx.currency = INR)

\* C7 witness: stated currency, receipt currency, narration hint and
\* merchant country name four different foreign currencies, and the stated
\* one is returned.
C7_Witness ==
    /\ Classified /\ ~HasDccMarker /\ StatedForeign /\ ReceiptForeign
    /\ TruthyStr(HintedCcy) /\ TruthyStr(CountryCcy)
    /\ Cardinality({Upper(txn.stated_currency.s), Upper(txn.receipt_currency.s),
                    HintedCcy.s, CountryCcy.s}) = 4
    /\ ctx.currency = Upper(txn.stated_currency.s)

ClaimedReceiptConfidence ==
    LET err == AbsErr(txn.amounts[1], txn.amounts[2])
        tol == cfg.fx_inr_tolerance
    IN Min(100, 50 + (IF TruthyStr(txn.merchant_country_iso2) THEN 30 ELSE 0)
                   + (IF err.k # "num" THEN 0
                      ELSE IF 2 * err.v <= tol THEN 20
                      ELSE IF err.v <= tol THEN 10 ELSE 0))

\* C9 (as claimed): a receipt classification has confidence 0.5, plus 0.3
\* with a merchant country, plus 0.2 when |charged - expected| is at most
\* half the configured tolerance or 0.1 when it is at most the tolerance,
\* capped at 1.0, for every configured tolerance.
C9_ReceiptConfidenceFollowsConfig ==
    (Classified /\ ctx.fx_source = "receipt")
        => ctx.confidence = ClaimedReceiptConfidence

\* ------------------------------------------------------- claims: matcher

Matched == op = "build_matches_and_flags"

InputCharges == {inputs.stripe_charges.rows[i]["charge_id"] : i \in 1..Len(inputs.stripe_charges.rows)}

\* The match records of the run that carry the charge
RecordsOf(charge_id) == {i \in 1..Len(run.matches) : run.matches[i]["charge_id"] = charge_id}

\* C10 (as claimed): in the match records a run of build_matches_and_flags
\* produces, every input charge appears in exactly one record, be it matched
\* primary, matched fallback or unmatched: none is missing and none appears
\* twice, also when several RMS postings share its invoice identifier or
\* several fallback candidates pass.
C10_EachChargeInExactlyOneRecord ==
    Matched => \A c \in InputCharges : Cardinality(RecordsOf(c)) = 1

\* The frames of the run, as the matcher normalises them
Charges == _norm_stripe(given.stripe_charges)

Postings == _norm_rms(given.rms_rows)

InputPostings == {Postings.rows[i]["rms_id"] : i \in 1..Len(Postings.rows)}

\* The rows of m_primary that line 154 takes as the primary matches
PrimaryPairs == {i \in 1..Len(m_primary_rows) : m_primary_rows[i]["match_type"] = SCell("primary")}

HasPrimary(charge_id) == \E i \in PrimaryPairs : m_primary_rows[i]["charge_id"] = charge_id

\* C11 (as claimed): among the match records of one run, each RMS posting is
\* referenced by at most one primary match, also when two or more charges
\* carry the invoice identifier of that posting.
C11_PostingInAtMostOnePrimary ==
    Matched => \A p \in InputPostings :
                  Cardinality({i \in PrimaryPairs : m_primary_rows[i]["rms_id"] = p}) <= 1

\* The flags of the run with the given name
FlagsNamed(name) == {i \in 1..Len(run.flags) : run.flags[i].flag = name}

InputChargeRows == 1..Len(Charges.rows)

\* The RMS postings that carry the invoice identifier
PostingsOfInvoice(invoice) == {i \in 1..Len(Postings.rows) : notna(invoice) /\ Postings.rows[i]["invoice_no"] = invoice}

\* C12 (as claimed): when more than one RMS posting carries the invoice
\* identifier of a charge, the run emits a DuplicateRMS flag at severity P0
\* for that charge or invoice and has no primary match record resolving the
\* charge to one of the postings, whether or not the RMS frame has the
\* stripe_charge_id column.
C12_DuplicateRmsFlagged ==
    Matched =>
      \A c \in InputChargeRows :
         Cardinality(PostingsOfInvoice(Charges.rows[c]["invoice_id"])) > 1 =>
            /\ \E f \in FlagsNamed("DuplicateRMS") :
                  /\ run.flags[f].severity = "P0"
                  /\ \/ run.flags[f].charge_id = Charges.rows[c]["charge_id"]
                     \/ run.flags[f].invoice_id = Charges.rows[c]["invoice_id"]
            /\ \A m \in RecordsOf(Charges.rows[c]["charge_id"]) :
                  run.matches[m]["match_type"] # SCell("primary")

AmountDelta(c, p) == Abs(Charges.rows[c]["amount"].n - Postings.rows[p]["amount_inr"].n)

\* Calendar days between the charge and the posting, both dated in TZ
DateDelta(c, p) == Abs(LocalDate(Charges.rows[c]["created"]).n - LocalDate(Postings.rows[p]["posted_at"]).n)

\* The postings that pass the fallback filter for the charge: the same payer
\* email, the amount within the tolerance, the day within the window
FallbackCandidates(c) ==
    IF ~({"email", "amount", "created"} \subseteq Charges.cols)
         \/ ~({"email", "amount_inr", "posted_at"} \subseteq Postings.cols)
    THEN {}
    ELSE {p \in 1..Len(Postings.rows) :
            /\ Postings.rows[p]["email"] = Charges.rows[c]["email"]
            /\ notna(Charges.rows[c]["amount"]) /\ notna(Postings.rows[p]["amount_inr"])
            /\ AmountDelta(c, p) <= AMT_TOL
            /\ notna(Charges.rows[c]["created"]) /\ notna(Postings.rows[p]["posted_at"])
            /\ DateDelta(c, p) <= DATE_WIN_DAYS}

\* The candidates with the smallest amount delta and, among those, the
\* smallest date delta
BestCandidates(c) ==
    {p \in FallbackCandidates(c) :
        \A q \in FallbackCandidates(c) :
            \/ AmountDelta(c, p) < AmountDelta(c, q)
            \/ AmountDelta(c, p) = AmountDelta(c, q) /\ DateDelta(c, p) <= DateDelta(c, q)}

ChargeId(c) == Charges.rows[c]["charge_id"]

\* C13 (as claimed): when several RMS postings pass the fallback filter for
\* a charge without a primary match, the run has exactly one match record
\* for the charge, a fallback one, and it names a candidate with the
\* smallest amount delta, ties broken by the smallest date delta.
C13_FallbackPicksBest ==
    Matched =>
      \A c \in InputChargeRows :
         (~HasPrimary(ChargeId(c)) /\ Cardinality(FallbackCandidates(c)) > 1) =>
            /\ Cardinality(RecordsOf(ChargeId(c))) = 1
            /\ \A m \in RecordsOf(ChargeId(c)) :
                  /\ run.matches[m]["match_type"] = SCell("fallback")
                  /\ \E p \in BestCandidates(c) :
                        run.matches[m]["rms_id"] = Postings.rows[p]["rms_id"]

FallbackRecords == {m \in 1..Len(run.matches) : run.matches[m]["match_type"] = SCell("fallback")}

\* C14 (as claimed): every fallback match record pairs a charge without a
\* primary match with a posting of the same payer email, an amount within
\* the amount tolerance and a posted day within the date window; a charge
\* with a primary match has no fallback record; and whenever some charge has
\* no primary match the run completes and returns its records.
C14_FallbackWithinTolerances ==
    Matched =>
      /\ \A m \in FallbackRecords :
            \E c \in InputChargeRows :
               /\ ChargeId(c) = run.matches[m]["charge_id"]
               /\ ~HasPrimary(ChargeId(c))
               /\ \E p \in FallbackCandidates(c) :
                     Postings.rows[p]["rms_id"] = run.matches[m]["rms_id"]
      /\ \A c \in InputChargeRows :
            HasPrimary(ChargeId(c)) =>
               \A m \in RecordsOf(ChargeId(c)) : m \notin FallbackRecords
      /\ (\E c \in InputChargeRows : ~HasPrimary(ChargeId(c))) => run.status = "returned"

\* The matched pairs of a charge: its rows among the primary matches (no
\* run produces a fallback pair)
PairsOf(charge_id) == {i \in PrimaryPairs : m_primary_rows[i]["charge_id"] = charge_id}

PairAmountDelta(i) == Abs(m_primary_rows[i]["amount"].n - m_primary_rows[i]["amount_inr"].n)

\* The flags of the given name and severity that reference the charge
FlagsFor(name, severity, charge_id) == {f \in FlagsNamed(name) : run.flags[f].severity = severity /\ run.flags[f].charge_id = charge_id}

\* C15 (as claimed): a matched pair gets an AmountMismatch flag (P1) if and
\* only if |charge.amount - rms.amount| is strictly greater than the amount
\* tolerance: a charge has as many AmountMismatch flags as it has matched
\* pairs whose delta exceeds the tolerance, none for a delta equal to it.
C15_AmountMismatchIffOverTolerance ==
    Matched =>
      \A c \in InputCharges :
         Cardinality(FlagsFor("AmountMismatch", "P1", c))
            = Cardinality({i \in PairsOf(c) : PairAmountDelta(i) > AMT_TOL})

PairDateDelta(i) == Abs(LocalDate(m_primary_rows[i]["created"]).n - LocalDate(m_primary_rows[i]["posted_at"]).n)

\* C16 (as claimed): a matched pair gets a DateDrift flag (P2) if and only
\* if the calendar days between the charge date and the RMS posted date,
\* both taken in the process timezone, are strictly more than the date
\* window: a charge has as many DateDrift flags as it has matched pairs
\* whose distance exceeds the window, none for a distance equal to it.
C16_DateDriftIffOverWindow ==
    Matched =>
      \A c \in InputCharges :
         Cardinality(FlagsFor("DateDrift", "P2", c))
            = Cardinality({i \in PairsOf(c) : PairDateDelta(i) > DATE_WIN_DAYS})

InputInvoices == {Charges.rows[c]["invoice_id"] : c \in InputChargeRows} \ {NaCell}

SucceededOn(invoice) == {c \in InputChargeRows : Charges.rows[c]["invoice_id"] = invoice /\ Charges.rows[c]["status"] = SCell("succeeded")}

DuplicateChargeFlagsOn(invoice) == {f \in FlagsNamed("DuplicateCharge") : run.flags[f].severity = "P0" /\ run.flags[f].invoice_id = invoice}

\* C17 (as claimed): the run emits exactly one DuplicateCharge flag (P0) for
\* every invoice identifier that more than one succeeded charge carries, and
\* none for an invoice with at most one succeeded charge; charges of another
\* status do not count.
C17_OneDuplicateChargePerInvoice ==
    Matched =>
      \A v \in InputInvoices :
         Cardinality(DuplicateChargeFlagsOn(v))
            = (IF Cardinality(SucceededOn(v)) > 1 THEN 1 ELSE 0)

\* The charges the webhook log has an event for
WebhookCharges ==
    IF given.webhook_log.k = "none" THEN {}
    ELSE {given.webhook_log.df.rows[e]["charge_id"] : e \in 1..Len(given.webhook_log.df.rows)}

\* The charge is paired with a posting, by invoice or by the fallback filter
HasMatch(c) == HasPrimary(ChargeId(c)) \/ FallbackCandidates(c) # {}

\* C18 (as claimed): the run emits an IntegrationFailure flag (P1) for a
\* charge that has a webhook-log event and no match, primary or fallback;
\* it emits none for a charge that has a match, and none at all when no
\* webhook log is supplied.
C18_IntegrationFailureForUnmatched ==
    Matched =>
      /\ \A c \in InputChargeRows :
            /\ (ChargeId(c) \in WebhookCharges /\ ~HasMatch(c))
                  => FlagsFor("IntegrationFailure", "P1", ChargeId(c)) # {}
            /\ HasMatch(c) => FlagsFor("IntegrationFailure", "P1", ChargeId(c)) = {}
      /\ given.webhook_log.k = "none" => FlagsNamed("IntegrationFailure") = {}

\* The refunds of the run whose charge is among the charges, with the charge
RefundedCharges ==
    {<<x, c>> \in (1..Len(given.stripe_refunds.rows)) \X InputChargeRows :
        given.stripe_refunds.rows[x]["charge_id"] = ChargeId(c)}

\* Some RMS entry of the invoice has a negative amount
HasCreditEntry(invoice) ==
    \E p \in PostingsOfInvoice(invoice) :
        Postings.rows[p]["amount_inr"].k = "num" /\ Postings.rows[p]["amount_inr"].n < 0

\* C19 (as claimed): the run emits a RefundNotPosted flag (P0) for a refund
\* when no RMS entry of the refunded charge's invoice has a negative amount,
\* and none for a refund whose charge's invoice has such an entry.
C19_RefundNotPostedIffNoCredit ==
    Matched =>
      \A xc \in RefundedCharges :
         (FlagsFor("RefundNotPosted", "P0", ChargeId(xc[2])) # {})
            <=> ~HasCreditEntry(Charges.rows[xc[2]]["invoice_id"])

C30_ContextWellFormed ==
    Classified =>
        /\ ctx.is_foreign <=> ctx.currency # INR
        /\ ~(ctx.is_foreign /\ ctx.is_dcc)
        /\ ctx.fx_source = "None" <=> (~ctx.is_foreign /\ ~ctx.is_dcc)

\* C30 witness: a domestic context without a source tag although the
\* statement names a currency (INR in lower case) and a country is given.
C30_Witness ==
    /\ Classified /\ ~ctx.is_foreign /\ ~ctx.is_dcc /\ ctx.fx_source = "None"
    /\ ctx.currency = INR
    /\ TruthyStr(txn.stated_currency)

\* ------------------------------------------------ claims: CC ageing

ClassifiedCC == op = "classify_cc_rows"

\* An entry timestamp is recorded in the export row.
Entered(r) == r.entered_at.k = "ts"

\* The working days after the transaction date up to and including day d
WorkingDaysElapsed(r, d) ==
    Cardinality({x \in (r.txn_date + 1)..d : x % 7 \notin {5, 6} /\ x \notin HOLIDAYS})

\* The stage by the four rules as stated, first true rule first
ClaimedStage(r, d) ==
    IF r.invoice_later /\ d - r.txn_date >= FINANCE_ESCALATION_DAYS THEN "D30"
    ELSE IF r.invoice_later /\ d - r.txn_date >= INVOICE_LATER_DAYS THEN "D14"
    ELSE IF ~Entered(r) /\ WorkingDaysElapsed(r, d) >= SLA_WDAYS THEN "D3"
    ELSE "None"

\* C21: the stage of every classified row is the one given by the first
\* true rule of: invoice-later and age >= finance threshold gives D30;
\* invoice-later and age >= invoice-later threshold gives D14; not entered
\* and working days elapsed >= SLA working days gives D3; otherwise none.
C21_StageByFirstRule ==
    ClassifiedCC =>
        \A i \in 1..Len(annotated) : annotated[i].stage = ClaimedStage(cc_df[i], today)

\* The SLA due date: the day on which the count of working days after the
\* transaction date reaches the SLA count.
DueDate(r) ==
    CHOOSE d \in (r.txn_date + 1)..(r.txn_date + 7 * SLA_WDAYS) :
        /\ WorkingDaysElapsed(r, d) = SLA_WDAYS
        /\ WorkingDaysElapsed(r, d - 1) = SLA_WDAYS - 1

\* C22: is_overdue is true exactly when no entry timestamp is recorded and
\* today is strictly after the SLA due date, the transaction date plus the
\* SLA number of working days, weekends and holidays skipped.
C22_OverdueIffPastDue ==
    ClassifiedCC =>
        \A i \in 1..Len(annotated) :
            /\ annotated[i].sla_due_date = DueDate(cc_df[i])
            /\ annotated[i].is_overdue <=> (~Entered(cc_df[i]) /\ today > DueDate(cc_df[i]))

\* C22 witness: an unentered transaction of a Thursday with the Friday and
\* the Monday holidays, classified on its due date and not overdue, after
\* the run of the day before.
C22_Witness ==
    /\ ClassifiedCC /\ Len(annotated) = 1 /\ Len(prev_annotated) = 1
    /\ HOLIDAYS # {}
    /\ ~Entered(cc_df[1])
    /\ today = annotated[1].sla_due_date
    /\ today > cc_df[1].txn_date + SLA_WDAYS + 2
    /\ ~annotated[1].is_overdue

StageRank(st) == CASE st = "None" -> 0 [] st = "D3" -> 1 [] st = "D14" -> 2 [] st = "D30" -> 3

\* C29: for a fixed transaction the stage never moves backwards as today
\* advances: in the order none < D3 < D14 < D30 the stage of the later
\* day is not lower than the stage of the earlier day.
C29_StageNeverMovesBack ==
    (ClassifiedCC /\ prev_annotated # <<>>) =>
        \A i \in 1..Len(annotated) :
            StageRank(annotated[i].stage) >= StageRank(prev_annotated[i].stage)

\* C29 witness: an invoice-later transaction that was at D3 the day before
\* and is at D14 today.
C29_Witness ==
    /\ ClassifiedCC /\ Len(annotated) = 1 /\ Len(prev_annotated) = 1
    /\ prev_annotated[1].stage = "D3"
    /\ annotated[1].stage = "D14"

\* ------------------------------------------------ claims: reminders

HandedKeys(k) == {i \in 1..Len(handed) : handed[i].key = k}

NoRunInProgress == \A p \in Runners : procs[p].pc \in {"idle", "done"}

\* C23: over completed runs of run_cc_monitor one after the other, a
\* reminder for a given (run id, audience, stage, transaction) is handed to
\* the notifier at most once, every reminder handed over by a completed
\* run is found by already_sent, and the log never holds two rows with the
\* same (run id, audience, stage, transaction).
C23_ReminderAtMostOnce ==
    /\ \A i \in 1..Len(handed) : Cardinality(HandedKeys(handed[i].key)) = 1
    /\ \A i, j \in 1..Len(reminder_log) : reminder_log[i] = reminder_log[j] => i = j
    /\ NoRunInProgress =>
           \A i \in 1..Len(handed) :
               LET k == handed[i].key
               IN already_sent(reminder_log, k.run_id, k.audience, k.stage, k.txn_id)

\* C23 witness: the second run of a day has returned; it found a staged
\* transaction already in the log and handed nothing over.
C23_Witness ==
    /\ nstarted = 2 /\ procs[1].pc = "done"
    /\ procs[1].work # <<>> /\ procs[1].unsent = <<>>
    /\ \E i \in 1..Len(handed) : handed[i].key.run_id = procs[1].run_id

\* C26: when two runs of run_cc_monitor with the same run id interleave,
\* no reminder for the same (audience, stage, transaction) is handed to
\* the notifier by both runs.
C26_NoReminderSentByBoth ==
    \A i, j \in 1..Len(handed) :
        handed[i].key = handed[j].key => handed[i].by = handed[j].by

\* ------------------------------------------------ claims: batch helpers

\* The output keeps the rows of the input: as many, in the same order,
\* under the same labels, every input column with its value.
KeepsRows(in, out) ==
    /\ Len(out.rows) = Len(in.rows)
    /\ out.index = in.index
    /\ \A j \in 1..Len(in.rows) :
           \A f \in DOMAIN in.rows[j] : f \in DOMAIN out.rows[j] /\ out.rows[j][f] = in.rows[j][f]

Logged(stage) == \E i \in 1..Len(orch.errors) : orch.errors[i] = stage

FxBlockDone == orch.pc \in {"report", "email", "done"} /\ orch.bank # NoFrame

\* The rows of the batch whose rate lookup failed: get_rate was called for
\* the row and returned None or raised.
FailedLookups ==
    {i \in 1..Len(orch.bank.rows) :
        /\ LooksUpRate(annotate_fx(orch.bank).rows[i])
        /\ orch.rates[i].k \in {"none", "raise"}}

\* C24: when the rate lookup fails for one transaction of a batch, the FX
\* results of the batch are not emptied: every transaction is classified,
\* every other transaction carries its own markup result and the affected
\* transaction's markup result is skipped.
C24_FailedLookupIsolated ==
    (FxBlockDone /\ FailedLookups # {}) =>
        /\ Len(orch.fx_df.rows) = Len(orch.bank.rows)
        /\ \A i \in 1..Len(orch.fx_df.rows) :
               LET r == orch.fx_df.rows[i]
                   c == ContextColumns(RowContext(orch.bank.rows[i]))
               IN /\ \A f \in DOMAIN c : r[f] = c[f]
                  /\ i \in FailedLookups => r.markup_status = "SKIPPED"
                  /\ i \notin FailedLookups => r.markup_status = RowMarkup(r).status

\* C25: when an input lacks a required column entirely, the run aborts
\* with an error and does not complete with a results bundle.
C25_MalformedInputAbortsRun ==
    orch.malformed # {} => (orch.pc = "raised" /\ orch.bundle.k = "none")

IsPrefix(a, b) == Len(a) <= Len(b) /\ \A i \in 1..Len(a) : a[i] = b[i]

\* C27: the blocks run in the order Stripe, CC, FX, summary and report,
\* digest email; a failure of the Stripe, CC or FX block leaves that
\* block's outputs as empty tables and does not end the run; the run
\* returns a bundle with run id, window, report path and counts, the same
\* whether or not the digest email failed.
C27_BlockFailuresIsolated ==
    /\ IsPrefix(orch.blocks, <<"stripe", "cc", "fx", "report", "email">>)
    /\ orch.pc \in {"idle", "cc", "fx", "report", "email", "done"}
    /\ Logged("STRIPE_BLOCK") => (orch.stripe_matches = <<>> /\ orch.stripe_flags = <<>>)
    /\ Logged("CC_BLOCK") => orch.cc_ann = <<>>
    /\ Logged("FX_BLOCK") => orch.fx_df = NoFrame
    /\ orch.pc = "done" =>
           /\ Len(orch.blocks) = 5
           /\ orch.bundle.k = "dict"
           /\ orch.bundle.run_id = orch.now
           /\ orch.bundle.since = orch.now - DAYS_BACK /\ orch.bundle.until = orch.now
           /\ orch.bundle.report_path = _write_report(orch.now)
           /\ orch.bundle.counts = [stripe_flags |-> Len(orch.stripe_flags),
                                    cc_rows |-> Len(orch.cc_ann),
                                    fx_rows |-> Len(orch.fx_df.rows)]

\* C27 witness: a run whose Stripe, CC and FX blocks and digest email all
\* failed has returned its bundle.
C27_Witness ==
    /\ orch.pc = "done" /\ orch.bundle.k = "dict"
    /\ Logged("STRIPE_BLOCK") /\ Logged("CC_BLOCK") /\ Logged("FX_BLOCK") /\ Logged("EMAIL")
    /\ orch.bundle.counts = [stripe_flags |-> 0, cc_rows |-> 0, fx_rows |-> 0]

====
